---------------------------- MODULE Spec2Model ----------------------------
(***************************************************************************)
(* The 3D viewport engine of nplan/screenspecs, ScreenVisualizer3D         *)
(* (src/src/js/ScreenVisualizer3D.js), as a state machine.                 *)
(*                                                                         *)
(* Numbers.  JavaScript doubles are modelled in fixed point: a length of   *)
(* one metre and an angle of one radian are both Unit = 10000, so that the *)
(* code's convergence threshold 0.001 is 10 units and fixed-point rounding *)
(* stays well below it.  Vectors are records [x, y, z].  Trigonometry is   *)
(* computed (Taylor series, bisection), never assumed.  Screen distances   *)
(* are millimetres as in the code; pointer deltas are CSS pixels.          *)
(*                                                                         *)
(* Left out: the THREE.js meshes' vertices, materials, colours, the        *)
(* cursor style, the sphere's opacity fade and the DOM.  No modelled       *)
(* handler reads them.                                                     *)
(***************************************************************************)
EXTENDS Integers, Sequences, FiniteSets, TLC

(***************************************************************************)
(* Fixed-point arithmetic                                                  *)
(***************************************************************************)
\* One metre, one radian, the factor 1.0.
Unit == 10000

\* Math.PI, in units.
PI == 31416

TWO_PI == 2 * PI

HALF_PI == PI \div 2

\* F applied to the value v: `const x = v; ...F(x)...`, v computed once.
With(v, F(_)) == F(v)

Abs(a) == IF a < 0 THEN -a ELSE a

Sgn(a) == IF a < 0 THEN -1 ELSE IF a > 0 THEN 1 ELSE 0

Min(a, b) == IF a < b THEN a ELSE b

Max(a, b) == IF a > b THEN a ELSE b

\* a / b rounded to the nearest integer (b > 0), symmetric around zero.
RDiv(a, b) == Sgn(a) * ((2 * Abs(a) + b) \div (2 * b))

\* The product of two fixed-point numbers, the whole and the fractional part
\* of b taken apart so that the intermediate products stay within 32 bits.
Mul(a, b) ==
    Sgn(a) * Sgn(b) * (Abs(a) * (Abs(b) \div Unit) + RDiv(Abs(a) * (Abs(b) % Unit), Unit))

\* a / b rounded away from zero (b > 0): a blend step never rounds to no step.
UpDiv(a, b) == Sgn(a) * ((Abs(a) + b - 1) \div b)

\* Math.sqrt on a non-negative integer: the nearest integer to the root.
RECURSIVE SqrtIter(_, _, _)
SqrtIter(n, lo, hi) ==
    IF lo >= hi THEN lo
    ELSE LET mid == (lo + hi + 1) \div 2
         IN  IF mid * mid <= n THEN SqrtIter(n, mid, hi) ELSE SqrtIter(n, lo, mid - 1)

Sqrt(n) == With(SqrtIter(n, 0, 46340), LAMBDA f : IF n - f * f > f THEN f + 1 ELSE f)

\* The Taylor series of sin from the term in x^n on, up to x^9; x2 is x^2 and
\* each term is the one before times -x^2 / ((n + 1) (n + 2)).
RECURSIVE SinTerms(_, _, _)
SinTerms(term, x2, n) ==
    IF n >= 9 THEN term
    ELSE term + SinTerms(-RDiv(term * x2, (n + 1) * (n + 2) * Unit), x2, n + 2)

\* sin on [0, HALF_PI], by its Taylor series to x^9.
SinSeries(x) == SinTerms(x, Mul(x, x), 1)

\* An angle reduced to (-PI, PI].
WrapAngle(a) == With(a % TWO_PI, LAMBDA m : IF m > PI THEN m - TWO_PI ELSE m)

\* Math.sin: sin(-w) = -sin(w) and sin(PI - w) = sin(w) bring the wrapped
\* angle w to [0, HALF_PI].
Sin(a) ==
    With(WrapAngle(a), LAMBDA w :
        Sgn(w) * Min(Unit, SinSeries(IF Abs(w) > HALF_PI THEN PI - Abs(w) ELSE Abs(w))))

\* Math.cos
Cos(a) == Sin(a + HALF_PI)

\* arctan(2^-i) for i = 0, 1, ..., in 10^-7 radians.
AtanTable ==
    << 7853982, 4636476, 2449787, 1243550, 624188, 312398, 156237, 78123, 39062,
       19531, 9766, 4883, 2441, 1221, 610, 305, 153, 76 >>

\* The angle of the point (x, y), x > 0, in 10^-7 radians, by rotating it onto
\* the x axis in steps of AtanTable[i] (CORDIC); p = 2^(i-1), z the angle so far.
RECURSIVE AngleIter(_, _, _, _, _)
AngleIter(x, y, z, i, p) ==
    IF i > Len(AtanTable) THEN z
    ELSE IF y > 0
         THEN AngleIter(x + y \div p, y - x \div p, z + AtanTable[i], i + 1, 2 * p)
         ELSE AngleIter(x - y \div p, y + x \div p, z - AtanTable[i], i + 1, 2 * p)

\* The angle in [0, HALF_PI] of the point (adj, opp), adj, opp >= 0 and not
\* both 0: the point is scaled up to 28 bits first.
FirstQuadrant(opp, adj) ==
    With(2^28 \div Max(opp, adj), LAMBDA scale :
        Min(HALF_PI, Max(0, RDiv(AngleIter(adj * scale, opp * scale, 0, 1, 1), 1000))))

\* Math.atan2(y, x), in (-PI, PI]; atan2(0, 0) = 0.
Atan2(y, x) ==
    IF y = 0 /\ x = 0 THEN 0
    ELSE With(FirstQuadrant(Abs(y), Abs(x)), LAMBDA q :
             (IF y < 0 THEN -1 ELSE 1) * (IF x >= 0 THEN q ELSE PI - q))


(***************************************************************************)
(* THREE.Vector3, THREE.Spherical, THREE.Camera.lookAt                     *)
(***************************************************************************)
V(a, b, c) == [x |-> a, y |-> b, z |-> c]

Zero == V(0, 0, 0)

\* The default camera looks along negative Z.
Forward == V(0, 0, -Unit)

\* THREE.Object3D.DEFAULT_UP
UpY == V(0, Unit, 0)

VAdd(a, b) == V(a.x + b.x, a.y + b.y, a.z + b.z)

VSub(a, b) == V(a.x - b.x, a.y - b.y, a.z - b.z)

\* Vector3.length
VLen(a) == Sqrt(a.x * a.x + a.y * a.y + a.z * a.z)

\* Vector3.distanceTo
VDist(a, b) == VLen(VSub(a, b))

\* MathUtils.lerp(a, b, t) = a + (b - a) * t
Lerp(a, b, t) == a + UpDiv((b - a) * t, Unit)

\* Vector3.lerp
VLerp(a, b, t) == V(Lerp(a.x, b.x, t), Lerp(a.y, b.y, t), Lerp(a.z, b.z, t))

\* Vector3.normalize: divideScalar(length() || 1)
Normalize(a) ==
    With(VLen(a), LAMBDA len :
        IF len = 0 THEN a
        ELSE V(RDiv(a.x * Unit, len), RDiv(a.y * Unit, len), RDiv(a.z * Unit, len)))

Spherical(r, p, t) == [radius |-> r, phi |-> p, theta |-> t]

\* Vector3.setFromSpherical
SetFromSpherical(sp) ==
    With(Mul(Sin(sp.phi), sp.radius), LAMBDA sinPhiRadius :
        V(Mul(sinPhiRadius, Sin(sp.theta)),
          Mul(Cos(sp.phi), sp.radius),
          Mul(sinPhiRadius, Cos(sp.theta))))

\* The code's phi = Math.acos(clamp(offset.y / radius, -1, 1)) for an offset
\* of length radius > 0: the polar angle from +Y, in [0, PI].
PolarAngle(offset) == Atan2(Sqrt(offset.x * offset.x + offset.z * offset.z), offset.y)

\* The code's theta = Math.atan2(offset.x, offset.z).
Azimuth(offset) == Atan2(offset.x, offset.z)

\* radius, phi, theta of a non-zero offset, as the code computes them.
SphericalOf(offset) == Spherical(VLen(offset), PolarAngle(offset), Azimuth(offset))

\* The view direction after camera.lookAt(point) from position: the unit
\* vector toward the point; Matrix4.lookAt falls back to -Z when they coincide.
LookDirection(position, point) ==
    IF point = position THEN Forward ELSE Normalize(VSub(point, position))

\* camera.lookAt(point)
LookAt(cam, point) == [cam EXCEPT !.dir = LookDirection(cam.position, point)]


(***************************************************************************)
(* Program constants                                                       *)
(***************************************************************************)
\* animationSpeed = 0.1
AnimationSpeed == 1000

\* The convergence threshold 0.001 of animateCamera.
Threshold == 10

\* zoomState.minZoom = 0.2
MinZoom == 2000

\* zoomState.maxZoom = 5.0
MaxZoom == 50000

\* The polar clamp of the orbit drag: 0.1 and Math.PI - 0.1.
MinPhi == 1000

MaxPhi == PI - 1000

\* The orbit drag's rotateSpeed 0.01 rad per pixel, in units per pixel.
OrbitRotateSpeed == 100

\* The look-around drag's rotateSpeed 0.003 rad per pixel, in units per pixel.
LookRotateSpeed == 30

\* zoomSpeed = 0.1 of onWheel.
ZoomSpeed == 1000

\* The pinch sensitivity 0.5 of onTouchMoveEnhanced.
PinchSensitivity == 5000

\* springSpeed = 0.1 of animateLookAroundSpringBack.
SpringSpeed == 1000

\* CONFIG.DEFAULTS.PRESET_DISTANCE, millimetres.
PRESET_DISTANCE == 800

\* CONFIG.PHYSICS.INCHES_TO_MM = 25.4, times ten.
INCHES_TO_MM_X10 == 254

\* Units per millimetre (distance / 1000 metres).
MM == 10

(***************************************************************************)
(* Inputs                                                                  *)
(***************************************************************************)
Screen(d, w, h, dist, curv, num) ==
    [diagonal |-> d, resolution |-> <<w, h>>, distance |-> dist,
     curvature |-> curv, scaling |-> 100, screenNumber |-> num]

\* 24" 1920x1080 flat at 600 mm.
ScreenA == Screen(24, 1920, 1080, 600, 0, 1)

\* 34" 3440x1440, 1500R, at 900 mm.
ScreenB == Screen(34, 3440, 1440, 900, 1500, 2)

\* 27" 2560x1440 flat at 600 mm: other content than ScreenA, same distance.
ScreenC == Screen(27, 2560, 1440, 600, 0, 1)

\* 24" 1920x1080 flat at 400 mm: so near that the top view's camera height
\* is its floor of 0.8 m.
ScreenD == Screen(24, 1920, 1080, 400, 0, 1)

\* The screen lists the host passes to updateScreens.
ScreenLists == { <<>>, <<ScreenA>>, <<ScreenA, ScreenB>>, <<ScreenC>> }

\* The screen lists the host mounts the engine with.
MountLists == ScreenLists \cup { <<ScreenD>> }

ViewAngles == {"front", "top", "3d"}

Themes == {"light", "dark"}

\* Canvas sizes a resize can lead to (device pixels of the width; the height
\* follows), the first being the size at initialization.
CanvasSizes == {800, 1024}

\* The width of a canvas element no script has sized yet.
DefaultCanvasWidth == 300

\* The display width when the deferred initialization runs.
InitialCanvasWidth == 800

\* Pointer deltas of one move event, pixels <<deltaX, deltaY>>.
DragDeltas == { <<40, -25>>, <<-1300, 400>> }

\* Distances between the two pointers of a pinch, pixels.
PinchDistances == {20, 300}

\* event.deltaY of a wheel event.
WheelDeltas == {-100, 100}

(***************************************************************************)
(* State: the fields of ScreenVisualizer3D, and the browser around it      *)
(***************************************************************************)
VARIABLES
    screens,              \* this.screens
    viewAngle,            \* this.viewAngle
    isInitialized,        \* this.isInitialized
    camera,               \* this.camera: [exists, position, up, dir]
    renderer,             \* this.renderer is set
    orbitState,           \* [enabled, dragging, spherical, target]
    zoomState,            \* [zoomFactor, baseDistance, pinching, lastPinchDistance]
    lookAroundState,      \* [dragging, currentYaw, currentPitch, maxYaw, maxPitch, springBack]
    screenMeshes,         \* this.screenMeshes: [screenData, index, z, built]
    userSphere,           \* this.userSphere is set
    sphereVisible,        \* this.sphereVisible
    viewAxisLine,         \* this.viewAxisLine: [exists, endZ]
    lastScreensHash,      \* [known, hash]
    lastCanvasSize,       \* this.lastCanvasSize.width
    lastTheme,            \* this.lastTheme
    lastDistanceHash,     \* [known, hash]
    isAnimating,          \* this.isAnimating
    targetCameraPosition, \* this.targetCameraPosition
    targetCameraLookAt,   \* this.targetCameraLookAt
    responseTimeoutId,    \* this.responseTimeoutId, 0 for null
    currentLookAt,        \* this._currentLookAt: [set, v]
    currentUp,            \* this._currentUp: [set, v]
    currentSpherical,     \* this._currentSpherical: [set, s]
    currentOrbitTarget,   \* this._currentOrbitTarget: [set, v]
    canvasWidth,          \* this.canvas.width
    theme,                \* the document's effective theme
    timers,               \* ids of the pending response timeouts
    timerCount,           \* timeouts created so far (the next id is one more)
    initPending,          \* the constructor's deferred init has not run yet
    rafPending,           \* an animation frame callback is scheduled
    listening,            \* the pointer, touch and wheel listeners are attached
    meshBuilds,           \* createScreens calls so far (identity of the meshes)
    rendered,             \* the last step called renderer.render
    prevCall,             \* canvas size and theme at the previous updateScreens call
    initResult,           \* what init3D handed its caller: NotRun, or the value returned
    liveRegion,           \* AccessibilityManager.liveRegion: [attached, textContent]
    announcementQueue,    \* AccessibilityManager.announcementQueue
    isAnnouncing,         \* AccessibilityManager.isAnnouncing
    announceTimeouts,     \* pending timeouts of processAnnouncementQueue:
                          \* [callback, message, remaining], oldest first
    requested,            \* the messages announce has queued so far, in order
    announced,            \* the messages written to the live region so far, in order
    displayedFor,         \* milliseconds since the last such write, up to DisplayMs
    urlState,             \* the application state the page hands to URLManager
    shareable,            \* what getShareableURL(urlState) returned: [called, url]
    decoded,              \* what decodeState returned for the link opened: [called, state]
    called,               \* the handler or callback that ran last (for touch events with
                          \* two touches: "pinchStart", "pinchMove")
    events,               \* input events the run may still take
    ticks                 \* animation frames the run may still spend moving something

\* The fields of the ScreenVisualizer3D instance and the browser around it.
engineVars ==
        << screens, viewAngle, isInitialized, camera, renderer, orbitState, zoomState,
           lookAroundState, screenMeshes, userSphere, sphereVisible, viewAxisLine,
           lastScreensHash, lastCanvasSize, lastTheme, lastDistanceHash, isAnimating,
           targetCameraPosition, targetCameraLookAt, responseTimeoutId, currentLookAt,
           currentUp, currentSpherical, currentOrbitTarget, canvasWidth, theme, timers,
           timerCount, initPending, rafPending, listening, meshBuilds, rendered,
           prevCall, initResult >>

\* The fields of the AccessibilityManager instance and its timeouts.
accessVars ==
        << liveRegion, announcementQueue, isAnnouncing, announceTimeouts, requested,
           announced, displayedFor >>

\* The state handed to the URLManager and what its functions returned.
urlVars == << urlState, shareable, decoded >>

vars == << engineVars, accessVars, urlVars, called, events, ticks >>

\* The state as one record: the handlers below are functions from state to state.
This ==
    [screens |-> screens, viewAngle |-> viewAngle, isInitialized |-> isInitialized,
     camera |-> camera, renderer |-> renderer, orbitState |-> orbitState,
     zoomState |-> zoomState, lookAroundState |-> lookAroundState,
     screenMeshes |-> screenMeshes, userSphere |-> userSphere,
     sphereVisible |-> sphereVisible, viewAxisLine |-> viewAxisLine,
     lastScreensHash |-> lastScreensHash, lastCanvasSize |-> lastCanvasSize,
     lastTheme |-> lastTheme, lastDistanceHash |-> lastDistanceHash,
     isAnimating |-> isAnimating, targetCameraPosition |-> targetCameraPosition,
     targetCameraLookAt |-> targetCameraLookAt, responseTimeoutId |-> responseTimeoutId,
     currentLookAt |-> currentLookAt, currentUp |-> currentUp,
     currentSpherical |-> currentSpherical, currentOrbitTarget |-> currentOrbitTarget,
     canvasWidth |-> canvasWidth, theme |-> theme, timers |-> timers,
     timerCount |-> timerCount, initPending |-> initPending, rafPending |-> rafPending,
     listening |-> listening, meshBuilds |-> meshBuilds, rendered |-> FALSE,
     prevCall |-> prevCall, initResult |-> initResult]

\* The step to state s.
Becomes(s) ==
    /\ screens' = s.screens
    /\ viewAngle' = s.viewAngle
    /\ isInitialized' = s.isInitialized
    /\ camera' = s.camera
    /\ renderer' = s.renderer
    /\ orbitState' = s.orbitState
    /\ zoomState' = s.zoomState
    /\ lookAroundState' = s.lookAroundState
    /\ screenMeshes' = s.screenMeshes
    /\ userSphere' = s.userSphere
    /\ sphereVisible' = s.sphereVisible
    /\ viewAxisLine' = s.viewAxisLine
    /\ lastScreensHash' = s.lastScreensHash
    /\ lastCanvasSize' = s.lastCanvasSize
    /\ lastTheme' = s.lastTheme
    /\ lastDistanceHash' = s.lastDistanceHash
    /\ isAnimating' = s.isAnimating
    /\ targetCameraPosition' = s.targetCameraPosition
    /\ targetCameraLookAt' = s.targetCameraLookAt
    /\ responseTimeoutId' = s.responseTimeoutId
    /\ currentLookAt' = s.currentLookAt
    /\ currentUp' = s.currentUp
    /\ currentSpherical' = s.currentSpherical
    /\ currentOrbitTarget' = s.currentOrbitTarget
    /\ canvasWidth' = s.canvasWidth
    /\ theme' = s.theme
    /\ timers' = s.timers
    /\ timerCount' = s.timerCount
    /\ initPending' = s.initPending
    /\ rafPending' = s.rafPending
    /\ listening' = s.listening
    /\ meshBuilds' = s.meshBuilds
    /\ rendered' = s.rendered
    /\ prevCall' = s.prevCall
    /\ initResult' = s.initResult
    /\ UNCHANGED << accessVars, urlVars >>

\* An unset helper vector, an unset helper spherical.
NoVec == [set |-> FALSE, v |-> Zero]

NoSph == [set |-> FALSE, s |-> Spherical(0, 0, 0)]

SomeVec(a) == [set |-> TRUE, v |-> a]

SomeSph(a) == [set |-> TRUE, s |-> a]

NoHash == [known |-> FALSE, hash |-> {}]

\* init3D has not run.
NotRun == "not run"

\* The value of a call that returned without one: init3D ends in a bare
\* return on each of its failures and falls off its end on success, and it
\* catches what the renderer's constructor throws.
Undefined == "undefined"

\* The state the constructor leaves.
Constructed ==
    /\ screens = <<>>
    /\ viewAngle = "front"
    /\ isInitialized = FALSE
    /\ camera = [exists |-> FALSE, position |-> Zero, up |-> UpY, dir |-> Forward]
    /\ renderer = FALSE
    /\ orbitState = [enabled |-> FALSE, dragging |-> FALSE,
                     spherical |-> Spherical(Unit, HALF_PI, 0), target |-> Zero]
    /\ zoomState = [zoomFactor |-> Unit, baseDistance |-> Unit, pinching |-> FALSE,
                    lastPinchDistance |-> 0]
    /\ lookAroundState = [dragging |-> FALSE, currentYaw |-> 0, currentPitch |-> 0,
                          maxYaw |-> 0, maxPitch |-> 0, springBack |-> FALSE]
    /\ screenMeshes = <<>>
    /\ userSphere = FALSE
    /\ sphereVisible = FALSE
    /\ viewAxisLine = [exists |-> FALSE, endZ |-> 0]
    /\ lastScreensHash = NoHash
    /\ lastCanvasSize = 0
    /\ theme = "light"
    /\ lastTheme = theme
    /\ lastDistanceHash = NoHash
    /\ isAnimating = FALSE
    /\ targetCameraPosition = Zero
    /\ targetCameraLookAt = Forward
    /\ responseTimeoutId = 0
    /\ currentLookAt = NoVec
    /\ currentUp = NoVec
    /\ currentSpherical = NoSph
    /\ currentOrbitTarget = NoVec
    /\ canvasWidth = DefaultCanvasWidth
    /\ timers = {}
    /\ timerCount = 0
    /\ initPending = TRUE
    /\ rafPending = FALSE
    /\ listening = FALSE
    /\ meshBuilds = 0
    /\ rendered = FALSE
    /\ prevCall = [called |-> FALSE, size |-> 0, theme |-> "light"]
    /\ initResult = NotRun

\* new AccessibilityManager(): the constructor, whose init() creates the
\* live region
AccessibilityConstructed ==
    /\ liveRegion = [attached |-> TRUE, textContent |-> ""]
    /\ announcementQueue = <<>>
    /\ isAnnouncing = FALSE
    /\ announceTimeouts = <<>>
    /\ requested = <<>>
    /\ announced = <<>>
    /\ displayedFor = 0

\* null, and a number, in a field that holds either.
NoNumber == [set |-> FALSE, v |-> 0]

Number(n) == [set |-> TRUE, v |-> n]

\* No call of getShareableURL or decodeState yet.
NotCalled == [called |-> FALSE]

\* The page before a link is shared or opened: no screen in the state.
NothingShared ==
    /\ urlState = [screens |-> <<>>]
    /\ shareable = NotCalled
    /\ decoded = NotCalled


(***************************************************************************)
(* Screen list helpers                                                     *)
(***************************************************************************)
\* screen.distance || CONFIG.DEFAULTS.PRESET_DISTANCE
DistanceOf(screen) == IF screen.distance = 0 THEN PRESET_DISTANCE ELSE screen.distance

RECURSIVE MaxDistance(_, _, _)
MaxDistance(list, i, acc) ==
    IF i > Len(list) THEN acc
    ELSE MaxDistance(list, i + 1, Max(acc, DistanceOf(list[i])))

\* calculateFurthestScreenDistance, millimetres
calculateFurthestScreenDistance(s) ==
    IF Len(s.screens) = 0 THEN PRESET_DISTANCE ELSE MaxDistance(s.screens, 1, 0)

\* Width and height of a screen in units, as calculateLookAroundFOVLimits and
\* createSingleScreen derive them from the diagonal and the resolution.
WidthMeters(screen) ==
    LET w == screen.resolution[1]
        h == screen.resolution[2]
    IN  RDiv(screen.diagonal * INCHES_TO_MM_X10 * w, Sqrt(w * w + h * h))

HeightMeters(screen) ==
    LET w == screen.resolution[1]
        h == screen.resolution[2]
    IN  RDiv(screen.diagonal * INCHES_TO_MM_X10 * h, Sqrt(w * w + h * h))

RECURSIVE MaxHalfAngle(_, _, _, _)
MaxHalfAngle(list, i, acc, horizontal) ==
    IF i > Len(list) THEN acc
    ELSE LET size == IF horizontal THEN WidthMeters(list[i]) ELSE HeightMeters(list[i])
             half == Atan2(size \div 2, DistanceOf(list[i]) * MM)
         IN  MaxHalfAngle(list, i + 1, Max(acc, half), horizontal)

\* calculateLookAroundFOVLimits
calculateLookAroundFOVLimits(s) ==
    IF Len(s.screens) = 0
    THEN [maxYaw |-> PI \div 6, maxPitch |-> PI \div 6]
    ELSE [maxYaw |-> MaxHalfAngle(s.screens, 1, 0, TRUE),
          maxPitch |-> MaxHalfAngle(s.screens, 1, 0, FALSE)]

\* The multiset of the values of a list, as a set of <<value, count>>: what
\* the sorted values joined into one string identify.
BagOf(values) ==
    { <<k, Cardinality({i \in DOMAIN values : values[i] = k})>> :
        k \in {values[i] : i \in DOMAIN values} }

\* One screen's part of the screens hash.
ScreenKey(screen) ==
    <<screen.diagonal, screen.resolution[1], screen.resolution[2], screen.distance,
      screen.curvature, screen.scaling, screen.screenNumber>>

\* generateScreensHash: 'empty', or the sorted per-screen strings joined
generateScreensHash(list) == BagOf([i \in DOMAIN list |-> ScreenKey(list[i])])

\* calculateDistanceHash: 'no-screens', or the sorted distances joined
calculateDistanceHash(s) == BagOf([i \in DOMAIN s.screens |-> DistanceOf(s.screens[i])])

(***************************************************************************)
(* Camera controller                                                       *)
(***************************************************************************)
\* updateSphereVisibility that enables the orbit in the isometric view and
\* never disables it.
updateSphereVisibilityNeverDisables(s) ==
    IF ~s.userSphere THEN s
    ELSE [s EXCEPT !.sphereVisible = (s.viewAngle # "front"),
                   !.orbitState.enabled = (@ \/ s.viewAngle = "3d")]

\* updateSphereVisibility that enables the orbit wherever the sphere shows.
updateSphereVisibilityOrbitWithSphere(s) ==
    IF ~s.userSphere THEN s
    ELSE [s EXCEPT !.sphereVisible = (s.viewAngle # "front"),
                   !.orbitState.enabled = (s.viewAngle # "front")]

\* updateSphereVisibility
updateSphereVisibility(s) ==
    IF ~s.userSphere THEN s
    ELSE [s EXCEPT !.sphereVisible = (s.viewAngle # "front"),
                   !.orbitState.enabled = (s.viewAngle = "3d")]

\* updateCameraFromSpherical
updateCameraFromSpherical(s) ==
    IF ~s.camera.exists THEN s
    ELSE LET position == VAdd(SetFromSpherical(s.orbitState.spherical), s.orbitState.target)
         IN  [s EXCEPT !.camera = LookAt([s.camera EXCEPT !.position = position],
                                         s.orbitState.target)]

\* The look direction for a yaw and a pitch: (0, 0, -1) rotated by the Euler
\* angles (-pitch, -yaw, 0) in order YXZ.
LookAroundDirection(yaw, pitch) ==
    V(Mul(Cos(pitch), Sin(yaw)), -Sin(pitch), -Mul(Cos(pitch), Cos(yaw)))

\* updateCameraLookAround
updateCameraLookAround(s) ==
    IF ~s.camera.exists \/ s.viewAngle # "front" THEN s
    ELSE [s EXCEPT !.camera = LookAt(s.camera,
              LookAroundDirection(s.lookAroundState.currentYaw,
                                  s.lookAroundState.currentPitch))]

\* The targets updateCameraPosition sets in front view.
FrontTargets(s) ==
    [s EXCEPT !.targetCameraPosition = Zero,
              !.targetCameraLookAt = Forward,
              !.zoomState.zoomFactor = Unit,
              !.zoomState.baseDistance = Unit]

\* TopTargets with the camera at the orbit height of the isometric view.
TopTargetsLow(s) ==
    With(calculateFurthestScreenDistance(s) * MM, LAMBDA furthestDistanceMeters :
        LET midpointZ == -(furthestDistanceMeters \div 2)
            cameraHeight == Max(1000, furthestDistanceMeters \div 5) * 2
        IN  [s EXCEPT !.targetCameraPosition = V(0, cameraHeight, midpointZ),
                      !.targetCameraLookAt = V(0, 0, midpointZ),
                      !.orbitState.target = V(0, 0, midpointZ),
                      !.zoomState.zoomFactor = Unit,
                      !.zoomState.baseDistance = cameraHeight])

\* The targets updateCameraPosition sets in top view.
TopTargets(s) ==
    With(calculateFurthestScreenDistance(s) * MM, LAMBDA furthestDistanceMeters :
        LET midpointZ == -(furthestDistanceMeters \div 2)
            cameraHeight == Max(8000, (furthestDistanceMeters * 3) \div 2)
        IN  [s EXCEPT !.targetCameraPosition = V(0, cameraHeight, midpointZ),
                      !.targetCameraLookAt = V(0, 0, midpointZ),
                      !.orbitState.target = V(0, 0, midpointZ),
                      !.zoomState.zoomFactor = Unit,
                      !.zoomState.baseDistance = cameraHeight])

\* IsoTargets derived from the nearest screen instead of the furthest.
IsoTargetsNearest(s) ==
    With(IF Len(s.screens) = 0 THEN PRESET_DISTANCE * MM
         ELSE CHOOSE d \in {DistanceOf(s.screens[i]) * MM : i \in DOMAIN s.screens} :
                  \A i \in DOMAIN s.screens : d <= DistanceOf(s.screens[i]) * MM,
         LAMBDA nearestDistanceMeters :
        LET cameraDistance == Max(1000, nearestDistanceMeters \div 5)
            cameraHeight == cameraDistance * 2
            cameraSide == cameraDistance * 3
            position == V(cameraSide, cameraHeight, cameraDistance)
            rotationCenter == V(0, 0, -(nearestDistanceMeters \div 2))
        IN  With(SphericalOf(VSub(position, rotationCenter)), LAMBDA spherical :
                [s EXCEPT !.targetCameraPosition = position,
                          !.targetCameraLookAt = rotationCenter,
                          !.orbitState.target = rotationCenter,
                          !.orbitState.spherical = spherical,
                          !.zoomState.zoomFactor = Unit,
                          !.zoomState.baseDistance = spherical.radius]))

\* The targets updateCameraPosition sets in isometric view.
IsoTargets(s) ==
    With(calculateFurthestScreenDistance(s) * MM, LAMBDA furthestDistanceMeters :
        LET cameraDistance == Max(1000, furthestDistanceMeters \div 5)
            cameraHeight == cameraDistance * 2
            cameraSide == cameraDistance * 3
            position == V(cameraSide, cameraHeight, cameraDistance)
            rotationCenter == V(0, 0, -(furthestDistanceMeters \div 2))
        IN  With(SphericalOf(VSub(position, rotationCenter)), LAMBDA spherical :
                [s EXCEPT !.targetCameraPosition = position,
                          !.targetCameraLookAt = rotationCenter,
                          !.orbitState.target = rotationCenter,
                          !.orbitState.spherical = spherical,
                          !.zoomState.zoomFactor = Unit,
                          !.zoomState.baseDistance = spherical.radius]))

\* updateCameraPosition that waits while an animation is in flight.
updateCameraPositionWhenIdle(s) ==
    IF ~s.camera.exists \/ s.isAnimating THEN s
    ELSE LET t == CASE s.viewAngle = "front" -> FrontTargets(s)
                    [] s.viewAngle = "top" -> TopTargets(s)
                    [] OTHER -> IsoTargets(s)
         IN  updateSphereVisibility([t EXCEPT !.isAnimating = TRUE])

\* updateCameraPosition
updateCameraPosition(s) ==
    IF ~s.camera.exists THEN s
    ELSE LET t == CASE s.viewAngle = "front" -> FrontTargets(s)
                    [] s.viewAngle = "top" -> TopTargets(s)
                    [] OTHER -> IsoTargets(s)
         IN  updateSphereVisibility([t EXCEPT !.isAnimating = TRUE])

\* applyZoom without the clamp to [minZoom, maxZoom].
applyZoomUnclamped(s, delta, sensitivity) ==
    IF ~s.camera.exists \/ s.viewAngle # "3d" \/ ~s.orbitState.enabled THEN s
    ELSE LET adjustedDelta == Unit + Mul(delta - Unit, sensitivity)
             zoomFactor == Mul(s.zoomState.zoomFactor, adjustedDelta)
             newRadius == RDiv(s.zoomState.baseDistance * Unit, zoomFactor)
         IN  updateCameraFromSpherical(
                 [s EXCEPT !.zoomState.zoomFactor = zoomFactor,
                           !.orbitState.spherical.radius = Max(100, newRadius)])

\* applyZoom(delta, sensitivity)
applyZoom(s, delta, sensitivity) ==
    IF ~s.camera.exists \/ s.viewAngle # "3d" \/ ~s.orbitState.enabled THEN s
    ELSE LET adjustedDelta == Unit + Mul(delta - Unit, sensitivity)
             newZoomFactor == Mul(s.zoomState.zoomFactor, adjustedDelta)
             zoomFactor == Max(MinZoom, Min(MaxZoom, newZoomFactor))
             newRadius == RDiv(s.zoomState.baseDistance * Unit, zoomFactor)
         IN  updateCameraFromSpherical(
                 [s EXCEPT !.zoomState.zoomFactor = zoomFactor,
                           !.orbitState.spherical.radius = Max(100, newRadius)])


(***************************************************************************)
(* Animation driver                                                        *)
(***************************************************************************)
\* The up vector the top view animates to.
TopUp == V(0, 0, -Unit)

\* animateCamera, top view
animateCameraTop(s) ==
    With(VLerp(s.camera.position, s.targetCameraPosition, AnimationSpeed), LAMBDA position :
    With(VLerp(IF s.currentLookAt.set THEN s.currentLookAt.v
               ELSE VAdd(position, s.camera.dir),
               s.targetCameraLookAt, AnimationSpeed), LAMBDA lookAt :
    With(VLerp(IF s.currentUp.set THEN s.currentUp.v ELSE s.camera.up,
               TopUp, AnimationSpeed), LAMBDA up :
    With(LookAt([s.camera EXCEPT !.position = position, !.up = up], lookAt), LAMBDA cam :
        IF /\ VDist(position, s.targetCameraPosition) < Threshold
           /\ VDist(lookAt, s.targetCameraLookAt) < Threshold
           /\ VDist(up, TopUp) < Threshold
        THEN [s EXCEPT !.camera = LookAt([cam EXCEPT !.position = s.targetCameraPosition,
                                                     !.up = TopUp],
                                         s.targetCameraLookAt),
                       !.isAnimating = FALSE,
                       !.currentLookAt = NoVec,
                       !.currentUp = NoVec,
                       !.currentSpherical = NoSph,
                       !.currentOrbitTarget = NoVec]
        ELSE [s EXCEPT !.camera = cam,
                       !.currentLookAt = SomeVec(lookAt),
                       !.currentUp = SomeVec(up),
                       !.currentSpherical = NoSph,
                       !.currentOrbitTarget = NoVec]))))

\* The difference target - current of two azimuths as the code wraps it
\* before blending: one turn is taken off or added.
ShortestDelta(targetTheta, currentTheta) ==
    LET deltaTheta == targetTheta - currentTheta
        d1 == IF deltaTheta > PI THEN deltaTheta - TWO_PI ELSE deltaTheta
    IN  IF d1 < -PI THEN d1 + TWO_PI ELSE d1

\* The working spherical coordinates of an isometric animation that has none:
\* those of the camera relative to the working orbit target.
FallbackSpherical(position, orbitTarget) ==
    LET offset == VSub(position, orbitTarget)
    IN  IF VLen(offset) > 0 THEN SphericalOf(offset)
        ELSE Spherical(Unit, PI \div 4, PI \div 4)

\* SnapIso without clearing the animation helper fields.
SnapIsoKeepsHelpers(s, cam) ==
    With(LookAt([cam EXCEPT !.position = s.targetCameraPosition, !.up = UpY],
                s.orbitState.target), LAMBDA final :
        [s EXCEPT !.camera = final,
                  !.isAnimating = FALSE,
                  !.orbitState.spherical =
                      SphericalOf(VSub(final.position, s.orbitState.target))])

\* SnapIso without camera.position.copy(targetCameraPosition).
SnapIsoWithoutCopy(s, cam) ==
    With(LookAt([cam EXCEPT !.up = UpY], s.orbitState.target), LAMBDA final :
        [s EXCEPT !.camera = final,
                  !.isAnimating = FALSE,
                  !.currentLookAt = NoVec,
                  !.currentUp = NoVec,
                  !.currentSpherical = NoSph,
                  !.currentOrbitTarget = NoVec,
                  !.orbitState.spherical =
                      SphericalOf(VSub(final.position, s.orbitState.target))])

\* The snap that ends an isometric animation.
SnapIso(s, cam) ==
    With(LookAt([cam EXCEPT !.position = s.targetCameraPosition, !.up = UpY],
                s.orbitState.target), LAMBDA final :
        [s EXCEPT !.camera = final,
                  !.isAnimating = FALSE,
                  !.currentLookAt = NoVec,
                  !.currentUp = NoVec,
                  !.currentSpherical = NoSph,
                  !.currentOrbitTarget = NoVec,
                  !.orbitState.spherical =
                      SphericalOf(VSub(final.position, s.orbitState.target))])

\* animateCamera, isometric view
animateCameraIso(s) ==
    With(VLerp(IF s.currentUp.set THEN s.currentUp.v ELSE s.camera.up,
               UpY, AnimationSpeed), LAMBDA up :
    With(VLerp(IF s.currentOrbitTarget.set THEN s.currentOrbitTarget.v
               ELSE s.orbitState.target,
               s.orbitState.target, AnimationSpeed), LAMBDA orbitTarget :
    With(IF s.currentSpherical.set THEN s.currentSpherical.s
         ELSE FallbackSpherical(s.camera.position, orbitTarget), LAMBDA sph0 :
    With(Spherical(
             Lerp(sph0.radius, s.orbitState.spherical.radius, AnimationSpeed),
             Lerp(sph0.phi, s.orbitState.spherical.phi, AnimationSpeed),
             sph0.theta + UpDiv(ShortestDelta(s.orbitState.spherical.theta, sph0.theta)
                                  * AnimationSpeed, Unit)), LAMBDA sph :
    With(VAdd(SetFromSpherical(sph), orbitTarget), LAMBDA position :
    With(LookAt([s.camera EXCEPT !.position = position, !.up = up], orbitTarget), LAMBDA cam :
        IF /\ VDist(position, s.targetCameraPosition) < Threshold
           /\ VDist(orbitTarget, s.orbitState.target) < Threshold
           /\ VDist(up, UpY) < Threshold
        THEN SnapIso(s, cam)
        ELSE [s EXCEPT !.camera = cam,
                       !.currentLookAt = NoVec,
                       !.currentUp = SomeVec(up),
                       !.currentSpherical = SomeSph(sph),
                       !.currentOrbitTarget = SomeVec(orbitTarget)]))))))

\* animateCamera, front view
animateCameraFront(s) ==
    With(VLerp(s.camera.position, s.targetCameraPosition, AnimationSpeed), LAMBDA position :
    With(VLerp(IF s.currentUp.set THEN s.currentUp.v ELSE s.camera.up,
               UpY, AnimationSpeed), LAMBDA up :
    With(Normalize(VSub(s.targetCameraLookAt, position)), LAMBDA targetLookDirection :
    With(VLerp(s.camera.dir, targetLookDirection, AnimationSpeed), LAMBDA lookDirection :
    With(LookAt([s.camera EXCEPT !.position = position, !.up = up],
                VAdd(position, lookDirection)), LAMBDA cam :
        IF /\ VDist(position, s.targetCameraPosition) < Threshold
           /\ VDist(lookDirection, targetLookDirection) < Threshold
           /\ VDist(up, UpY) < Threshold
        THEN [s EXCEPT !.camera = LookAt([cam EXCEPT !.position = s.targetCameraPosition,
                                                     !.up = UpY],
                                         s.targetCameraLookAt),
                       !.isAnimating = FALSE,
                       !.currentUp = NoVec,
                       !.currentSpherical = NoSph,
                       !.currentOrbitTarget = NoVec,
                       !.currentLookAt = NoVec]
        ELSE [s EXCEPT !.camera = cam,
                       !.currentUp = SomeVec(up),
                       !.currentSpherical = NoSph,
                       !.currentOrbitTarget = NoVec,
                       !.currentLookAt = NoVec])))))

\* animateCamera
animateCamera(s) ==
    IF ~s.isAnimating \/ ~s.camera.exists THEN s
    ELSE CASE s.viewAngle = "top" -> animateCameraTop(s)
           [] s.viewAngle = "3d" -> animateCameraIso(s)
           [] OTHER -> animateCameraFront(s)

\* A yaw or pitch times (1 - springSpeed).
Decay(a) == Sgn(a) * ((Abs(a) * (Unit - SpringSpeed)) \div Unit)

\* animateLookAroundSpringBack that never clears springBack.
animateLookAroundSpringBackForever(s) ==
    IF ~s.lookAroundState.springBack \/ s.viewAngle # "front" THEN s
    ELSE LET yaw == Decay(s.lookAroundState.currentYaw)
             pitch == Decay(s.lookAroundState.currentPitch)
             centred == Abs(yaw) < Threshold /\ Abs(pitch) < Threshold
         IN  updateCameraLookAround(
                 [s EXCEPT !.lookAroundState.currentYaw = IF centred THEN 0 ELSE yaw,
                           !.lookAroundState.currentPitch = IF centred THEN 0 ELSE pitch])

\* animateLookAroundSpringBack
animateLookAroundSpringBack(s) ==
    IF ~s.lookAroundState.springBack \/ s.viewAngle # "front" THEN s
    ELSE LET yaw == Decay(s.lookAroundState.currentYaw)
             pitch == Decay(s.lookAroundState.currentPitch)
             centred == Abs(yaw) < Threshold /\ Abs(pitch) < Threshold
         IN  updateCameraLookAround(
                 [s EXCEPT !.lookAroundState.currentYaw = IF centred THEN 0 ELSE yaw,
                           !.lookAroundState.currentPitch = IF centred THEN 0 ELSE pitch,
                           !.lookAroundState.springBack = ~centred])

\* animate: one frame of the loop, which reschedules itself while initialized
animate(s) ==
    IF ~s.isInitialized THEN [s EXCEPT !.rafPending = FALSE]
    ELSE [animateLookAroundSpringBack(animateCamera(s))
             EXCEPT !.rendered = TRUE, !.rafPending = TRUE]


(***************************************************************************)
(* Input router: the listeners setupOrbitControls attaches                 *)
(***************************************************************************)
\* The press of onMouseDown and onTouchStart in front view.
StartLookAround(s) ==
    With(calculateLookAroundFOVLimits(s), LAMBDA fovLimits :
        [s EXCEPT !.lookAroundState.dragging = TRUE,
                  !.lookAroundState.springBack = FALSE,
                  !.lookAroundState.maxYaw = fovLimits.maxYaw,
                  !.lookAroundState.maxPitch = fovLimits.maxPitch])

\* PressSpherical without the recomputation from the live camera.
PressSphericalStale(s) == s.orbitState.spherical

\* The spherical coordinates a press leaves in orbitState: those of the live
\* camera relative to the orbit target, in isometric view and off the target.
PressSpherical(s) ==
    LET offset == VSub(s.camera.position, s.orbitState.target)
    IN  IF s.viewAngle = "3d" /\ VLen(offset) > 0 THEN SphericalOf(offset)
        ELSE s.orbitState.spherical

\* The press of onMouseDown and onTouchStart with orbit controls enabled.
StartOrbit(s) ==
    [s EXCEPT !.orbitState.dragging = TRUE,
              !.isAnimating = FALSE,
              !.orbitState.spherical = PressSpherical(s)]

\* onMouseDown
onMouseDown(s) ==
    IF s.viewAngle = "front" THEN StartLookAround(s)
    ELSE IF ~s.orbitState.enabled THEN s
    ELSE StartOrbit(s)

Clamp(lo, a, hi) == Max(lo, Min(hi, a))

\* MoveLookAround without the clamp to the FOV limits.
MoveLookAroundUnclamped(s, deltaX, deltaY) ==
    LET l == s.lookAroundState
    IN  updateCameraLookAround(
            [s EXCEPT !.lookAroundState.currentYaw = l.currentYaw - deltaX * LookRotateSpeed,
                      !.lookAroundState.currentPitch = l.currentPitch - deltaY * LookRotateSpeed])

\* The look-around move of onMouseMove and onTouchMove.
MoveLookAround(s, deltaX, deltaY) ==
    LET l == s.lookAroundState
        yaw == Clamp(-l.maxYaw, l.currentYaw - deltaX * LookRotateSpeed, l.maxYaw)
        pitch == Clamp(-l.maxPitch, l.currentPitch - deltaY * LookRotateSpeed, l.maxPitch)
    IN  updateCameraLookAround([s EXCEPT !.lookAroundState.currentYaw = yaw,
                                         !.lookAroundState.currentPitch = pitch])

\* DragPhi without the clamp.
DragPhiUnclamped(phi, deltaY) == phi - deltaY * OrbitRotateSpeed

\* The polar angle after an orbit move of deltaY pixels.
DragPhi(phi, deltaY) == Clamp(MinPhi, phi - deltaY * OrbitRotateSpeed, MaxPhi)

\* The azimuth after an orbit move of deltaX pixels.
DragTheta(theta, deltaX) == theta - deltaX * OrbitRotateSpeed

\* The orbit move of onMouseMove and onTouchMove.
MoveOrbit(s, deltaX, deltaY) ==
    updateCameraFromSpherical(
        [s EXCEPT !.orbitState.spherical.theta = DragTheta(@, deltaX),
                  !.orbitState.spherical.phi = DragPhi(@, deltaY)])

\* onMouseMove; deltaX and deltaY are event.clientX and clientY less the
\* coordinates the previous press or move stored.
onMouseMove(s, deltaX, deltaY) ==
    IF s.viewAngle = "front" /\ s.lookAroundState.dragging
    THEN MoveLookAround(s, deltaX, deltaY)
    ELSE IF ~s.orbitState.enabled \/ ~s.orbitState.dragging THEN s
    ELSE MoveOrbit(s, deltaX, deltaY)

\* onMouseUp
onMouseUp(s) ==
    IF s.viewAngle = "front" /\ s.lookAroundState.dragging
    THEN [s EXCEPT !.lookAroundState.dragging = FALSE,
                   !.lookAroundState.springBack = TRUE]
    ELSE [s EXCEPT !.orbitState.dragging = FALSE]

\* onTouchStart, reached with one touch
onTouchStart(s) ==
    IF s.viewAngle = "front" THEN StartLookAround(s)
    ELSE IF ~s.orbitState.enabled THEN s
    ELSE StartOrbit(s)

\* onTouchMove, reached with one touch
onTouchMove(s, deltaX, deltaY) ==
    IF s.viewAngle = "front" /\ s.lookAroundState.dragging
    THEN MoveLookAround(s, deltaX, deltaY)
    ELSE IF ~s.orbitState.enabled \/ ~s.orbitState.dragging THEN s
    ELSE MoveOrbit(s, deltaX, deltaY)

\* onTouchEnd
onTouchEnd(s) ==
    IF s.viewAngle = "front" /\ s.lookAroundState.dragging
    THEN [s EXCEPT !.lookAroundState.dragging = FALSE,
                   !.lookAroundState.springBack = TRUE]
    ELSE [s EXCEPT !.orbitState.dragging = FALSE, !.zoomState.pinching = FALSE]

\* onWheel
onWheel(s, deltaY) ==
    IF s.viewAngle # "3d" \/ ~s.orbitState.enabled THEN s
    ELSE applyZoom(s, IF deltaY > 0 THEN Unit + ZoomSpeed ELSE Unit - ZoomSpeed, Unit)

\* onTouchStartEnhanced with `touches` touches, the two of a pinch
\* pinchDistance pixels apart
onTouchStartEnhanced(s, touches, pinchDistance) ==
    IF touches = 1 THEN onTouchStart(s)
    ELSE IF touches # 2 THEN s
    ELSE IF s.viewAngle # "3d" \/ ~s.orbitState.enabled THEN s
    ELSE [s EXCEPT !.orbitState.dragging = FALSE,
                   !.zoomState.pinching = TRUE,
                   !.zoomState.lastPinchDistance = pinchDistance]

\* PinchMove with the pinch ratio applied at full sensitivity.
PinchMoveFullSensitivity(s, pinchDistance) ==
    IF s.viewAngle # "3d" \/ ~s.orbitState.enabled
    THEN [s EXCEPT !.zoomState.pinching = FALSE]
    ELSE LET z == IF s.zoomState.lastPinchDistance > 0
                  THEN applyZoom(s, RDiv(pinchDistance * Unit,
                                         s.zoomState.lastPinchDistance), Unit)
                  ELSE s
         IN  [z EXCEPT !.zoomState.lastPinchDistance = pinchDistance]

\* The two-touch branch of onTouchMoveEnhanced while pinching.
PinchMove(s, pinchDistance) ==
    IF s.viewAngle # "3d" \/ ~s.orbitState.enabled
    THEN [s EXCEPT !.zoomState.pinching = FALSE]
    ELSE LET z == IF s.zoomState.lastPinchDistance > 0
                  THEN applyZoom(s, RDiv(pinchDistance * Unit,
                                         s.zoomState.lastPinchDistance),
                                 PinchSensitivity)
                  ELSE s
         IN  [z EXCEPT !.zoomState.lastPinchDistance = pinchDistance]

\* onTouchMoveEnhanced
onTouchMoveEnhanced(s, touches, deltaX, deltaY, pinchDistance) ==
    IF touches = 1 /\ ~s.zoomState.pinching THEN onTouchMove(s, deltaX, deltaY)
    ELSE IF touches = 2 /\ s.zoomState.pinching THEN PinchMove(s, pinchDistance)
    ELSE s

(***************************************************************************)
(* Scene composer and external interface                                   *)
(***************************************************************************)
\* The screen createDefaultScreen shows when the list is empty.
DefaultScreen == Screen(24, 1920, 1080, PRESET_DISTANCE, 0, 1)

\* arcAngle = screenWidth / radiusMeters, for a curvature radius in millimetres
ArcAngle(screenWidth, curvature) == RDiv(screenWidth * Unit, curvature * MM)

\* ArcSegments without the scaling by the arc angle.
ArcSegmentsFixed(arcAngle) == 32

\* segments = Math.max(32, Math.floor(arcAngle * 32))
ArcSegments(arcAngle) == Max(32, (arcAngle * 32) \div Unit)

\* The arc a panel or a border is bent along; curvature 0 stands for the
\* null of a flat screen, which is built from a plane and boxes.
ArcOf(screenWidth, curvature) ==
    IF curvature = 0 THEN [curved |-> FALSE, arcAngle |-> 0, segments |-> 0]
    ELSE With(ArcAngle(screenWidth, curvature), LAMBDA arcAngle :
             [curved |-> TRUE, arcAngle |-> arcAngle, segments |-> ArcSegments(arcAngle)])

\* createScreenBorder: what the frame's bars are built from
createScreenBorder(screenWidth, screenHeight, curvature) ==
    With(RDiv(screenHeight, 100), LAMBDA borderThickness :
        [borderThickness |-> borderThickness,
         borderDepth |-> RDiv(borderThickness, 2),
         arc |-> ArcOf(screenWidth, curvature)])

\* createCenterPanel: what the panel is built from
createCenterPanel(screenWidth, screenHeight, curvature) ==
    [width |-> screenWidth, height |-> screenHeight,
     arc |-> ArcOf(screenWidth, curvature)]

\* The mesh group createSingleScreen pushes for the screen with 0-based index.
createSingleScreen(screenData, index, build) ==
    [screenData |-> screenData,
     border |-> createScreenBorder(WidthMeters(screenData), HeightMeters(screenData),
                                   screenData.curvature),
     centerPanel |-> createCenterPanel(WidthMeters(screenData), HeightMeters(screenData),
                                       screenData.curvature),
     z |-> -(DistanceOf(screenData) * MM) + index * 10,
     built |-> build]

\* createScreens: clearScreens, then one mesh group per screen
createScreens(s) ==
    LET build == s.meshBuilds + 1
    IN  [s EXCEPT !.meshBuilds = build,
                  !.screenMeshes =
                      IF Len(s.screens) = 0
                      THEN << createSingleScreen(DefaultScreen, 0, build) >>
                      ELSE [i \in 1..Len(s.screens) |->
                               createSingleScreen(s.screens[i], i - 1, build)]]

\* createViewAxisLine
createViewAxisLine(s) ==
    [s EXCEPT !.viewAxisLine =
        [exists |-> TRUE, endZ |-> -(calculateFurthestScreenDistance(s) * MM)]]

\* updateViewAxisLine
updateViewAxisLine(s) ==
    IF ~s.viewAxisLine.exists \/ ~s.isInitialized THEN s
    ELSE createViewAxisLine(s)

\* updateCanvasSize with the canvas displayed width wide
updateCanvasSize(s, width) ==
    [s EXCEPT !.canvasWidth = width, !.lastCanvasSize = width]

\* handleResize
handleResize(s, width) ==
    IF ~s.isInitialized THEN s
    ELSE [updateCanvasSize(s, width) EXCEPT !.lastScreensHash = NoHash]

\* hasScreenDataChanged: the answer
ScreenDataChanged(s) ==
    \/ ~s.lastScreensHash.known
    \/ s.lastScreensHash.hash # generateScreensHash(s.screens)
    \/ s.lastCanvasSize # s.canvasWidth
    \/ s.lastTheme # s.theme

\* hasScreenDataChanged: the caches after it
hasScreenDataChanged(s) ==
    IF ScreenDataChanged(s)
    THEN [s EXCEPT !.lastTheme = s.theme,
                   !.lastScreensHash = [known |-> TRUE,
                                        hash |-> generateScreensHash(s.screens)],
                   !.lastCanvasSize = s.canvasWidth]
    ELSE s

\* hasDistanceChanged: the answer
DistanceChanged(s) ==
    \/ ~s.lastDistanceHash.known
    \/ s.lastDistanceHash.hash # calculateDistanceHash(s)

\* clearTimeout(this.responseTimeoutId) when it is set
ClearResponseTimeout(s) ==
    IF s.responseTimeoutId # 0 THEN [s EXCEPT !.timers = @ \ {s.responseTimeoutId}]
    ELSE s

\* updateCameraPositionResponsive without clearTimeout.
updateCameraPositionResponsiveNoClear(s) ==
    IF s.viewAngle = "front" \/ ~s.isInitialized THEN s
    ELSE LET id == s.timerCount + 1
         IN  [s EXCEPT !.timers = @ \cup {id},
                       !.timerCount = id,
                       !.responseTimeoutId = id]

\* updateCameraPositionResponsive
updateCameraPositionResponsive(s) ==
    IF s.viewAngle = "front" \/ ~s.isInitialized THEN s
    ELSE LET c == ClearResponseTimeout(s)
             id == s.timerCount + 1
         IN  [c EXCEPT !.timers = @ \cup {id},
                       !.timerCount = id,
                       !.responseTimeoutId = id]

\* updateScreens(screens)
updateScreens(s, list) ==
    With([s EXCEPT !.screens = list,
                   !.prevCall = [called |-> TRUE, size |-> s.canvasWidth,
                                 theme |-> s.theme]], LAMBDA s0 :
    With(DistanceChanged(s0), LAMBDA distanceChanged :
    With([s0 EXCEPT !.lastDistanceHash = [known |-> TRUE,
                                          hash |-> calculateDistanceHash(s0)]], LAMBDA s1 :
    With(IF s1.isInitialized
         THEN IF ScreenDataChanged(s1)
              THEN updateViewAxisLine(createScreens(hasScreenDataChanged(s1)))
              ELSE hasScreenDataChanged(s1)
         ELSE s1, LAMBDA s2 :
        IF s2.isInitialized /\ distanceChanged
        THEN updateViewAxisLine(updateCameraPositionResponsive(s2))
        ELSE s2))))

\* SeedIso without the guard radius > 0.
SeedIsoUnguarded(s, previousCameraPosition, previousUp, previousOrbitTarget) ==
    [s EXCEPT !.currentOrbitTarget = SomeVec(previousOrbitTarget),
              !.currentUp = SomeVec(previousUp),
              !.currentSpherical =
                  SomeSph(SphericalOf(VSub(previousCameraPosition, previousOrbitTarget)))]

\* The working values setViewAngle seeds an isometric animation with.
SeedIso(s, previousCameraPosition, previousUp, previousOrbitTarget) ==
    LET offset == VSub(previousCameraPosition, previousOrbitTarget)
    IN  [s EXCEPT !.currentOrbitTarget = SomeVec(previousOrbitTarget),
                  !.currentUp = SomeVec(previousUp),
                  !.currentSpherical =
                      SomeSph(IF VLen(offset) > 0 THEN SphericalOf(offset)
                              ELSE Spherical(Unit, HALF_PI, 0))]

\* setViewAngle without the test this.viewAngle !== angle.
setViewAngleUnguarded(s, angle) ==
    LET s1 == [s EXCEPT !.viewAngle = angle]
        s2 == IF angle = "front"
              THEN [s1 EXCEPT !.lookAroundState.currentYaw = 0,
                              !.lookAroundState.currentPitch = 0,
                              !.lookAroundState.dragging = FALSE,
                              !.lookAroundState.springBack = FALSE]
              ELSE s1
    IN  IF ~s2.isInitialized THEN s2
        ELSE IF angle = "3d"
             THEN SeedIso(updateCameraPosition(s2), s.camera.position, s.camera.up,
                          s.orbitState.target)
             ELSE updateCameraPosition(s2)

\* setViewAngle(angle)
setViewAngle(s, angle) ==
    IF s.viewAngle = angle THEN s
    ELSE LET s1 == [s EXCEPT !.viewAngle = angle]
             s2 == IF angle = "front"
                   THEN [s1 EXCEPT !.lookAroundState.currentYaw = 0,
                                   !.lookAroundState.currentPitch = 0,
                                   !.lookAroundState.dragging = FALSE,
                                   !.lookAroundState.springBack = FALSE]
                   ELSE s1
         IN  IF ~s2.isInitialized THEN s2
             ELSE IF angle = "3d"
                  THEN SeedIso(updateCameraPosition(s2), s.camera.position, s.camera.up,
                               s.orbitState.target)
                  ELSE updateCameraPosition(s2)

\* init3D up to the creation of the renderer
InitCamera(s) ==
    LET s1 == updateCanvasSize(s, InitialCanvasWidth)
        s2 == [s1 EXCEPT !.camera = [exists |-> TRUE, position |-> Zero, up |-> UpY,
                                     dir |-> Forward]]
    IN  With(updateCameraPosition(s2), LAMBDA s3 :
            [s3 EXCEPT !.targetCameraPosition = s3.camera.position,
                       !.targetCameraLookAt = Forward])

\* createUserSphere without the call of updateSphereVisibility.
createUserSphereOnly(s) == [s EXCEPT !.userSphere = TRUE]

\* createUserSphere
createUserSphere(s) == updateSphereVisibility([s EXCEPT !.userSphere = TRUE])

\* init3D from a renderer with a context on: controls, scene, first frame, loop
InitScene(s) ==
    LET s1 == [s EXCEPT !.listening = TRUE]
        s2 == createViewAxisLine(createUserSphere(createScreens(s1)))
    IN  animate([s2 EXCEPT !.rendered = TRUE, !.isInitialized = TRUE])

\* init3D; outcome says how far the browser lets it get
init3D(s, outcome) ==
    With([s EXCEPT !.initResult = Undefined], LAMBDA r :
        IF outcome = "no_canvas" THEN r
        ELSE With(InitCamera(r), LAMBDA c :
                 CASE outcome = "renderer_throws" -> c
                   [] outcome = "no_context" -> [c EXCEPT !.renderer = TRUE]
                   [] OTHER -> InitScene([c EXCEPT !.renderer = TRUE])))

InitOutcomes == {"ok", "no_canvas", "renderer_throws", "no_context"}

\* destroy without this.isInitialized = false.
destroyStillInitialized(s) ==
    LET s1 == IF s.responseTimeoutId # 0
              THEN [ClearResponseTimeout(s) EXCEPT !.responseTimeoutId = 0]
              ELSE s
    IN  [s1 EXCEPT !.listening = FALSE,
                   !.screenMeshes = <<>>,
                   !.userSphere = FALSE]

\* destroy
destroy(s) ==
    LET s1 == IF s.responseTimeoutId # 0
              THEN [ClearResponseTimeout(s) EXCEPT !.responseTimeoutId = 0]
              ELSE s
    IN  [s1 EXCEPT !.listening = FALSE,
                   !.screenMeshes = <<>>,
                   !.userSphere = FALSE,
                   !.isInitialized = FALSE]


(***************************************************************************)
(* Actions                                                                 *)
(***************************************************************************)
\* Input events a run may hold.
MaxEvents == 3

\* Animation frames of a run in which the camera or the look-around moves.
MaxTicks == 2

Init ==
    /\ Constructed
    /\ AccessibilityConstructed
    /\ NothingShared
    /\ called = "constructor"
    /\ events = MaxEvents
    /\ ticks = MaxTicks

\* The host or the user calls the handler, which leaves state s.
Input(handler, s) ==
    /\ events > 0
    /\ Becomes(s)
    /\ called' = handler
    /\ events' = events - 1
    /\ UNCHANGED ticks

\* The constructor's setTimeout(() => { init3D(); setupEventListeners() }, 100)
Init3D ==
    /\ initPending
    /\ \E outcome \in InitOutcomes :
           Becomes([init3D(This, outcome) EXCEPT !.initPending = FALSE])
    /\ called' = "init3D"
    /\ UNCHANGED << events, ticks >>

\* A frame of animate() moves something.
Busy ==
    /\ isInitialized
    /\ \/ isAnimating
       \/ lookAroundState.springBack /\ viewAngle = "front"

\* The frame callback requestAnimationFrame(() => this.animate()) scheduled.
Tick ==
    /\ rafPending
    /\ Busy => ticks > 0
    /\ Becomes(animate(This))
    /\ called' = "animate"
    /\ ticks' = IF Busy THEN ticks - 1 ELSE ticks
    /\ UNCHANGED events

\* The timeout of updateCameraPositionResponsive fires.
TimerFire ==
    /\ \E id \in timers : Becomes(updateCameraPosition([This EXCEPT !.timers = @ \ {id}]))
    /\ called' = "timeout"
    /\ UNCHANGED << events, ticks >>

SetViewAngle == \E angle \in ViewAngles : Input("setViewAngle", setViewAngle(This, angle))

UpdateScreens == \E list \in ScreenLists : Input("updateScreens", updateScreens(This, list))

Resize == \E width \in CanvasSizes : Input("handleResize", handleResize(This, width))

\* The document's theme changes; the theme listeners only recolour.
ThemeChange == \E t \in Themes \ {theme} : Input("themeChanged", [This EXCEPT !.theme = t])

Destroy == Input("destroy", destroy(This))

MouseDown == listening /\ Input("onMouseDown", onMouseDown(This))

MouseMove == listening /\ \E d \in DragDeltas : Input("onMouseMove", onMouseMove(This, d[1], d[2]))

MouseUp == listening /\ Input("onMouseUp", onMouseUp(This))

TouchStart ==
    /\ listening
    /\ \/ Input("onTouchStart", onTouchStartEnhanced(This, 1, 0))
       \/ \E p \in PinchDistances : Input("pinchStart", onTouchStartEnhanced(This, 2, p))

TouchMove ==
    /\ listening
    /\ \/ \E d \in DragDeltas : Input("onTouchMove", onTouchMoveEnhanced(This, 1, d[1], d[2], 0))
       \/ \E p \in PinchDistances : Input("pinchMove", onTouchMoveEnhanced(This, 2, 0, 0, p))

TouchEnd == listening /\ Input("onTouchEnd", onTouchEnd(This))

Wheel == listening /\ \E deltaY \in WheelDeltas : Input("onWheel", onWheel(This, deltaY))

Next ==
    \/ Init3D
    \/ Tick
    \/ TimerFire
    \/ SetViewAngle
    \/ UpdateScreens
    \/ Resize
    \/ ThemeChange
    \/ Destroy
    \/ MouseDown
    \/ MouseMove
    \/ MouseUp
    \/ TouchStart
    \/ TouchMove
    \/ TouchEnd
    \/ Wheel

\* Every handler, in any order.
Spec == Init /\ [][Next]_vars

(***************************************************************************)
(* Orbiting: presses and moves of one pointer between mode switches,       *)
(* screen edits and their debounced camera updates                         *)
(***************************************************************************)
\* Input events of an orbiting run.
MaxOrbitEvents == 4

InitOrbit ==
    /\ Constructed
    /\ AccessibilityConstructed
    /\ NothingShared
    /\ called = "constructor"
    /\ events = MaxOrbitEvents
    /\ ticks = MaxTicks

NextOrbit ==
    \/ Init3D
    \/ Tick
    \/ TimerFire
    \/ SetViewAngle
    \/ UpdateScreens
    \/ MouseDown
    \/ MouseMove
    \/ MouseUp

SpecOrbit == InitOrbit /\ [][NextOrbit]_vars


(***************************************************************************)
(* Round trips: switches between the front and the isometric view of a     *)
(* fixed screen set, each animation left to converge or interrupted in its *)
(* first frames                                                            *)
(***************************************************************************)
\* The host's first updateScreens, before the deferred init3D has run.
Mount ==
    /\ initPending
    /\ ~prevCall.called
    /\ \E list \in MountLists : Becomes(updateScreens(This, list))
    /\ called' = "updateScreens"
    /\ UNCHANGED << events, ticks >>

\* The host switches between the front and the isometric view, after the
\* animation has converged or while early frames are left.
Switch ==
    /\ ~Busy \/ ticks > 0
    /\ \E angle \in {"front", "3d"} \ {viewAngle} : Input("setViewAngle", setViewAngle(This, angle))

\* A frame of an animation no input interrupts any more.
Settle ==
    /\ rafPending
    /\ Busy
    /\ ticks = 0
    /\ Becomes(animate(This))
    /\ called' = "animate"
    /\ UNCHANGED << events, ticks >>

NextRoundTrip ==
    \/ Mount
    \/ Init3D
    \/ Switch
    \/ Tick
    \/ Settle

SpecRoundTrip == Init /\ [][NextRoundTrip]_vars

(***************************************************************************)
(* Settling: mode switches and wheel zooms, each animation left to run     *)
(* until no frame moves anything unless input arrives in its first frames  *)
(***************************************************************************)
\* Input arrives between animations or in the first frames of one.
Early == ~Busy \/ ticks > 0

SwitchEarly == Early /\ SetViewAngle

WheelEarly == Early /\ Wheel

NextSettle ==
    \/ Mount
    \/ Init3D
    \/ SwitchEarly
    \/ WheelEarly
    \/ Tick
    \/ Settle

SpecSettle == Init /\ [][NextSettle]_vars

(***************************************************************************)
(* Looking around: presses, moves and releases of the mouse in the front   *)
(* view, each spring-back left to run unless input arrives in its first    *)
(* frames                                                                  *)
(***************************************************************************)
NextLookAround ==
    \/ Mount
    \/ Init3D
    \/ Early /\ MouseDown
    \/ Early /\ MouseMove
    \/ Early /\ MouseUp
    \/ Tick
    \/ Settle

SpecLookAround == Init /\ [][NextLookAround]_vars


(***************************************************************************)
(* Building: updateScreens called with lists nobody validated              *)
(***************************************************************************)
\* 24" 1920x1080 with the viewing distance 0 mm.
ScreenE == Screen(24, 1920, 1080, 0, 0, 1)

\* The lists a caller that does not validate passes to updateScreens.
UnvalidatedLists == ScreenLists \cup { <<ScreenE>>, <<ScreenA, ScreenE>> }

UpdateUnvalidated ==
    \E list \in UnvalidatedLists : Input("updateScreens", updateScreens(This, list))

NextBuild ==
    \/ Init3D
    \/ Tick
    \/ TimerFire
    \/ SetViewAngle
    \/ UpdateUnvalidated

SpecBuild == Init /\ [][NextBuild]_vars


(***************************************************************************)
(* Geometry: the engine mounted with one screen out of a range of sizes    *)
(* and curvatures, and initialized                                         *)
(***************************************************************************)
\* Diagonals in inches, resolutions, and curvature radii in millimetres
\* (0 for flat) of the screens mounted.
Diagonals == {24, 34, 49}

Resolutions == { <<1920, 1080>>, <<3440, 1440>>, <<5120, 1440>> }

Curvatures == {0, 800, 1000, 1800}

GeometryLists ==
    { << Screen(d, r[1], r[2], 600, c, 1) >> :
        d \in Diagonals, r \in Resolutions, c \in Curvatures }

\* The host's first updateScreens, before the deferred init3D has run.
MountGeometry ==
    /\ initPending
    /\ ~prevCall.called
    /\ \E list \in GeometryLists : Becomes(updateScreens(This, list))
    /\ called' = "updateScreens"
    /\ UNCHANGED << events, ticks >>

NextGeometry ==
    \/ MountGeometry
    \/ Init3D
    \/ Tick

SpecGeometry == Init /\ [][NextGeometry]_vars


(***************************************************************************)
(* Looking around while the screens change: presses, moves and releases of *)
(* the mouse in the front view between screen edits                        *)
(***************************************************************************)
\* Input events of a run of looking around.
MaxLookEvents == 5

InitLook ==
    /\ Constructed
    /\ AccessibilityConstructed
    /\ NothingShared
    /\ called = "constructor"
    /\ events = MaxLookEvents
    /\ ticks = MaxTicks

NextLook ==
    \/ Init3D
    \/ Tick
    \/ UpdateScreens
    \/ MouseDown
    \/ MouseMove
    \/ MouseUp

SpecLook == InitLook /\ [][NextLook]_vars


(***************************************************************************)
(* Stacking: lists of one or two 24" screens whose viewing distances are   *)
(* equal or a millimetre or two apart                                      *)
(***************************************************************************)
StackDistances == {600, 601, 602}

StackLists ==
    { [i \in 1..n |-> Screen(24, 1920, 1080, f[i], 0, i)] :
        n \in 1..2, f \in [1..2 -> StackDistances] }

UpdateStack ==
    \E list \in StackLists : Input("updateScreens", updateScreens(This, list))

NextStack ==
    \/ Init3D
    \/ Tick
    \/ UpdateStack

SpecStack == Init /\ [][NextStack]_vars


(***************************************************************************)
(* AccessibilityManager: the announcement queue and its timeouts           *)
(***************************************************************************)
\* this.liveRegion = null
NoRegion == [attached |-> FALSE, textContent |-> ""]

\* Delay of the write after the live region is cleared, and the time a
\* message is displayed before the queue is processed again, milliseconds.
AnnounceDelayMs == 100

DisplayMs == 1000

\* The AccessibilityManager as one record.
Manager ==
    [liveRegion |-> liveRegion, announcementQueue |-> announcementQueue,
     isAnnouncing |-> isAnnouncing, announceTimeouts |-> announceTimeouts,
     requested |-> requested, announced |-> announced, displayedFor |-> displayedFor]

\* The step of the AccessibilityManager to state a.
ManagerBecomes(a) ==
    /\ liveRegion' = a.liveRegion
    /\ announcementQueue' = a.announcementQueue
    /\ isAnnouncing' = a.isAnnouncing
    /\ announceTimeouts' = a.announceTimeouts
    /\ requested' = a.requested
    /\ announced' = a.announced
    /\ displayedFor' = a.displayedFor
    /\ UNCHANGED << engineVars, urlVars >>

\* setTimeout(callback, delay), the callback closing over message
Timeout(callback, message, delay) ==
    [callback |-> callback, message |-> message, remaining |-> delay]

\* processAnnouncementQueue, up to and with its setTimeout; the assignment
\* to the textContent of a null live region throws and ends the call.
processAnnouncementQueue(a) ==
    IF Len(a.announcementQueue) = 0 THEN [a EXCEPT !.isAnnouncing = FALSE]
    ELSE LET message == Head(a.announcementQueue)
             b == [a EXCEPT !.isAnnouncing = TRUE,
                            !.announcementQueue = Tail(@)]
         IN  IF ~a.liveRegion.attached THEN b
             ELSE [b EXCEPT !.liveRegion.textContent = "",
                            !.announceTimeouts =
                                Append(@, Timeout("write", message, AnnounceDelayMs))]

\* announce that starts processing whether or not a chain is active.
announceUnguarded(a, message) ==
    IF message = "" \/ ~a.liveRegion.attached THEN a
    ELSE processAnnouncementQueue(
             [a EXCEPT !.announcementQueue = Append(@, message),
                       !.requested = Append(@, message)])

\* announce(message)
announce(a, message) ==
    IF message = "" \/ ~a.liveRegion.attached THEN a
    ELSE LET b == [a EXCEPT !.announcementQueue = Append(@, message),
                            !.requested = Append(@, message)]
         IN  IF ~b.isAnnouncing THEN processAnnouncementQueue(b) ELSE b

\* The callback of the outer timeout: the write of the message, and the
\* timeout of the next round; the assignment to the textContent of a null
\* live region throws and ends the callback.
writeAnnouncement(a, message) ==
    IF ~a.liveRegion.attached THEN a
    ELSE [a EXCEPT !.liveRegion.textContent = message,
                   !.announced = Append(@, message),
                   !.displayedFor = 0,
                   !.announceTimeouts = Append(@, Timeout("next", message, DisplayMs))]

\* AccessibilityManager.destroy
accessibilityDestroy(a) ==
    [a EXCEPT !.liveRegion = NoRegion,
              !.announcementQueue = <<>>,
              !.isAnnouncing = FALSE]

\* The messages the page announces, and the empty message.
Messages == {"", "Monitor 2 added", "Monitor 2 removed"}

\* The page calls announce(message).
Announce ==
    /\ events > 0
    /\ \E message \in Messages : ManagerBecomes(announce(Manager, message))
    /\ called' = "announce"
    /\ events' = events - 1
    /\ UNCHANGED ticks

\* The page calls AccessibilityManager.destroy().
AccessibilityDestroy ==
    /\ events > 0
    /\ ManagerBecomes(accessibilityDestroy(Manager))
    /\ called' = "accessibilityDestroy"
    /\ events' = events - 1
    /\ UNCHANGED ticks

\* The sequence without its i-th element.
Without(seq, i) == SubSeq(seq, 1, i - 1) \o SubSeq(seq, i + 1, Len(seq))

\* A timeout of processAnnouncementQueue that is due runs its callback.
AnnounceTimeout ==
    /\ \E i \in 1..Len(announceTimeouts) :
          /\ announceTimeouts[i].remaining = 0
          /\ LET timeout == announceTimeouts[i]
                 a == [Manager EXCEPT !.announceTimeouts = Without(@, i)]
             IN  IF timeout.callback = "write"
                 THEN /\ ManagerBecomes(writeAnnouncement(a, timeout.message))
                      /\ called' = "announceWrite"
                 ELSE /\ ManagerBecomes(processAnnouncementQueue(a))
                      /\ called' = "announceNext"
    /\ UNCHANGED << events, ticks >>

\* AnnounceDelayMs milliseconds pass while no pending timeout is due.
TimePasses ==
    /\ Len(announceTimeouts) > 0
    /\ \A i \in 1..Len(announceTimeouts) : announceTimeouts[i].remaining > 0
    /\ ManagerBecomes(
           [Manager EXCEPT
               !.announceTimeouts =
                   [i \in 1..Len(@) |-> [@[i] EXCEPT !.remaining = @ - AnnounceDelayMs]],
               !.displayedFor = Min(DisplayMs, @ + AnnounceDelayMs)])
    /\ called' = "clock"
    /\ UNCHANGED << events, ticks >>

NextAnnounce ==
    \/ Announce
    \/ AnnounceTimeout
    \/ TimePasses

\* The browser runs a timeout that is due, and time does not stand still.
SpecAnnounce ==
    /\ Init
    /\ [][NextAnnounce]_vars
    /\ WF_vars(AnnounceTimeout)
    /\ WF_vars(TimePasses)

NextTeardown ==
    \/ Announce
    \/ AnnounceTimeout
    \/ TimePasses
    \/ AccessibilityDestroy

SpecTeardown == Init /\ [][NextTeardown]_vars


(***************************************************************************)
(* URLManager: shareable links                                             *)
(***************************************************************************)
\* this.config.VERSION: the constructor's config object has the keys
\* PARAM_NAMES, COMPRESSION and MAX_URL_LENGTH, and no key VERSION.
ConfigVersion == NoNumber

\* encodeURIComponent and decodeURIComponent, on the presets of the model
encodeURIComponent(text) == IF text = "34 ultrawide" THEN "34%20ultrawide" ELSE text

decodeURIComponent(text) == IF text = "34%20ultrawide" THEN "34 ultrawide" ELSE text

\* `${key}=${value}` with a number (its numeral stands for it) or a text
Part(key, number, text) == [key |-> key, number |-> number, text |-> text]

\* encodeScreen: the parts it joins with ','
encodeScreen(screen) ==
    << Part("d", screen.diagonal, ""),
       Part("w", screen.width, ""),
       Part("h", screen.height, ""),
       Part("dt", screen.distance, ""),
       Part("c", IF screen.curvature.set THEN screen.curvature.v ELSE 0, "") >>
    \o (IF screen.scaling = 100 THEN <<>> ELSE << Part("sc", screen.scaling, "") >>)
    \o (IF screen.preset # ""
        THEN << Part("p", 0, encodeURIComponent(screen.preset)) >>
        ELSE <<>>)

\* encodeState: the parameters v and s, the latter as the encoded screens it
\* joins with '|'; undefined.toString() throws before either is set.
encodeState(state) ==
    IF ~ConfigVersion.set THEN [thrown |-> TRUE, v |-> NoNumber, s |-> <<>>]
    ELSE [thrown |-> FALSE,
          v |-> ConfigVersion,
          s |-> [i \in 1..Len(state.screens) |-> encodeScreen(state.screens[i])]]

\* getShareableURL: the URL as its parameters, or null
getShareableURL(state) ==
    With(encodeState(state), LAMBDA urlParams :
        [called |-> TRUE, null |-> urlParams.thrown,
         v |-> urlParams.v, s |-> urlParams.s])

\* The value the last part with the key gives, in a screen string's parts.
Has(parts, key) == \E i \in 1..Len(parts) : parts[i].key = key

Given(parts, key) ==
    parts[CHOOSE i \in 1..Len(parts) :
              /\ parts[i].key = key
              /\ \A j \in (i + 1)..Len(parts) : parts[j].key # key]

\* decodeScreen: the screen, or null
decodeScreen(parts) ==
    LET diagonal == IF Has(parts, "d") THEN Given(parts, "d").number ELSE 0
        width == IF Has(parts, "w") THEN Given(parts, "w").number ELSE 0
        height == IF Has(parts, "h") THEN Given(parts, "h").number ELSE 0
    IN  IF diagonal = 0 \/ width = 0 \/ height = 0 THEN [null |-> TRUE]
        ELSE [null |-> FALSE,
              diagonal |-> diagonal,
              width |-> width,
              height |-> height,
              distance |-> IF Has(parts, "dt") THEN Given(parts, "dt").number
                           ELSE PRESET_DISTANCE,
              curvature |-> IF Has(parts, "c") /\ Given(parts, "c").number # 0
                            THEN Number(Given(parts, "c").number)
                            ELSE NoNumber,
              scaling |-> IF Has(parts, "sc") THEN Given(parts, "sc").number ELSE 100,
              preset |-> IF Has(parts, "p") THEN decodeURIComponent(Given(parts, "p").text)
                         ELSE ""]

\* validateScreen
validateScreen(screen) ==
    /\ screen.diagonal > 0
    /\ screen.width > 0
    /\ screen.height > 0
    /\ screen.distance > 0
    /\ screen.scaling > 0
    /\ screen.curvature.set => screen.curvature.v > 0

\* validateState
validateState(state) == \A i \in 1..Len(state.screens) : validateScreen(state.screens[i])

\* A decoded screen as the state holds it.
ScreenOf(d) ==
    [diagonal |-> d.diagonal, width |-> d.width, height |-> d.height,
     distance |-> d.distance, curvature |-> d.curvature, scaling |-> d.scaling,
     preset |-> d.preset]

\* decodeState of the parameters v (NoNumber when absent) and s: the state,
\* or null
decodeState(v, s) ==
    LET version == IF v.set THEN v.v ELSE 1
        IsScreen(d) == ~d.null
        found == SelectSeq([i \in 1..Len(s) |-> decodeScreen(s[i])], IsScreen)
        state == [screens |-> [i \in 1..Len(found) |-> ScreenOf(found[i])]]
    IN  IF ConfigVersion.set /\ version > ConfigVersion.v
        THEN [null |-> TRUE, screens |-> <<>>]
        ELSE IF validateState(state) THEN [null |-> FALSE, screens |-> state.screens]
        ELSE [null |-> TRUE, screens |-> <<>>]

\* The screens of the states the page shares.
ShareScreens ==
    { [diagonal |-> d, width |-> r[1], height |-> r[2], distance |-> dist,
       curvature |-> c, scaling |-> sc, preset |-> p] :
        d \in {24, 34}, r \in { <<1920, 1080>>, <<3440, 1440>> }, dist \in {600, 800},
        c \in {NoNumber, Number(1500)}, sc \in {100, 150},
        p \in {"", "24-1920-1080", "34 ultrawide"} }

\* The screen that comes second in the states with two screens.
SecondScreens ==
    { x \in ShareScreens : x.diagonal = 34 /\ x.width = 3440 /\ x.distance = 800 }

\* The valid states with one or two screens.
ShareStates ==
    { [screens |-> << x >>] : x \in ShareScreens }
    \cup { [screens |-> << x, y >>] : x \in ShareScreens, y \in SecondScreens }

InitShare ==
    /\ Constructed
    /\ AccessibilityConstructed
    /\ urlState \in ShareStates
    /\ shareable = NotCalled
    /\ decoded = NotCalled
    /\ called = "constructor"
    /\ events = MaxEvents
    /\ ticks = MaxTicks

\* The page asks for the link of its state.
GetShareableURL ==
    /\ ~shareable.called
    /\ shareable' = getShareableURL(urlState)
    /\ called' = "getShareableURL"
    /\ UNCHANGED << engineVars, accessVars, urlState, decoded, events, ticks >>

\* The page opens a link that carries the encoded screens of the state,
\* with the version parameter 1 or with none.
OpenLink ==
    /\ ~decoded.called
    /\ \E v \in {NoNumber, Number(1)} :
          With(decodeState(v, [i \in 1..Len(urlState.screens) |->
                                  encodeScreen(urlState.screens[i])]), LAMBDA state :
              decoded' = [called |-> TRUE, null |-> state.null, screens |-> state.screens])
    /\ called' = "decodeState"
    /\ UNCHANGED << engineVars, accessVars, urlState, shareable, events, ticks >>

NextShare ==
    \/ GetShareableURL
    \/ OpenLink

SpecShare == InitShare /\ [][NextShare]_vars

(***************************************************************************)
(* Properties                                                              *)
(***************************************************************************)
\* A step that is an orbit drag move in isometric view: onMouseMove, or
\* onTouchMove with one touch and no pinch, taking its orbit branch.
OrbitDragMove ==
    /\ listening
    /\ viewAngle = "3d"
    /\ orbitState.enabled
    /\ orbitState.dragging
    /\ \E d \in DragDeltas :
           \/ Input("onMouseMove", onMouseMove(This, d[1], d[2]))
           \/ ~zoomState.pinching /\ Input("onTouchMove", onTouchMoveEnhanced(This, 1, d[1], d[2], 0))

\* C1: after every orbit drag move (mouse or single touch) in isometric view,
\* however large the pixel deltas, the orbit polar angle
\* orbitState.spherical.phi lies in [0.1, pi - 0.1].
PhiClampedAfterDrag ==
    [][OrbitDragMove =>
          /\ MinPhi <= orbitState.spherical.phi'
          /\ orbitState.spherical.phi' <= MaxPhi]_vars

\* C1 witness: a drag of 400 pixels down has brought phi to the clamp at 0.1.
DragAtPhiClamp ==
    /\ viewAngle = "3d"
    /\ orbitState.dragging
    /\ orbitState.spherical.phi = MinPhi

\* C2: zoomState.zoomFactor is in [0.2, 5.0] in every reachable state, whatever
\* wheel and pinch events, mode switches and camera retargets led to it.
ZoomFactorInRange ==
    /\ MinZoom <= zoomState.zoomFactor
    /\ zoomState.zoomFactor <= MaxZoom

\* C2 witness: a pinch that spreads the fingers from 20 to 300 pixels has
\* brought the zoom factor to the clamp at 5.0.
ZoomAtMaximum ==
    /\ viewAngle = "3d"
    /\ zoomState.pinching
    /\ zoomState.zoomFactor = MaxZoom

\* A frame that blends the working azimuth of an isometric animation toward
\* the target azimuth and does not end the animation.
IsoAzimuthStep ==
    /\ Tick
    /\ isInitialized /\ isAnimating /\ viewAngle = "3d"
    /\ currentSpherical.set
    /\ currentSpherical'.set

\* C3: in every isometric animation tick the azimuth moves along the shorter
\* arc toward the target azimuth: the step has the sign of the difference
\* target - current wrapped into (-pi, pi], and is at most animationSpeed * pi.
AzimuthTakesShorterArc ==
    [][IsoAzimuthStep =>
          LET step == currentSpherical'.s.theta - currentSpherical.s.theta
              shortest == WrapAngle(orbitState.spherical.theta - currentSpherical.s.theta)
          IN  /\ Abs(step) <= UpDiv(PI * AnimationSpeed, Unit)
              /\ Abs(shortest) < PI => Sgn(step) = Sgn(shortest)]_vars

\* The isometric view at rest.
IsoAtRest == isInitialized /\ viewAngle = "3d" /\ ~isAnimating

\* C4: with the screen set unchanged and no manual orbit or zoom, the camera
\* pose the isometric view converges to (position, up vector, orbit target,
\* orbit spherical coordinates, zoom factor) is the same after a round trip
\* isometric -> front -> isometric as on the first arrival: at rest it is the
\* pose updateCameraPosition derives from the screen set, whatever came before.
RoundTripSamePose ==
    IsoAtRest =>
        /\ camera.position = IsoTargets(This).targetCameraPosition
        /\ camera.up = UpY
        /\ orbitState.target = IsoTargets(This).orbitState.target
        /\ orbitState.spherical = IsoTargets(This).orbitState.spherical
        /\ zoomState.zoomFactor = Unit

\* C4 witness: the isometric view at rest after the third switch of the run,
\* front -> isometric -> front -> isometric.
RoundTripDone == IsoAtRest /\ events = MaxEvents - 3

\* C5: setViewAngle called with the current view mode changes nothing: view
\* mode, target pose, isAnimating, camera, orbit state, zoom state, look-around
\* state and the animation helper fields are what they were before the call.
SameModeIsNoOp ==
    [][called' = "setViewAngle" /\ viewAngle' = viewAngle =>
          UNCHANGED << viewAngle, targetCameraPosition, targetCameraLookAt, isAnimating,
                       camera, orbitState, zoomState, lookAroundState, currentLookAt,
                       currentUp, currentSpherical, currentOrbitTarget >>]_vars

\* C5 witness: setViewAngle("front") has returned in the front view with the
\* look-around yaw a drag left, which a switch to the front view resets.
SameModeCallKeptYaw ==
    /\ called = "setViewAngle"
    /\ isInitialized
    /\ viewAngle = "front"
    /\ lookAroundState.currentYaw # 0

\* C6: on an initialized engine, updateScreens with a list whose content hash,
\* canvas size and theme are those of the previous call builds no mesh, leaves
\* the screen meshes untouched and schedules no camera update.
UnchangedCallSkipsRebuild ==
    [][/\ called' = "updateScreens"
       /\ isInitialized
       /\ prevCall.called
       /\ generateScreensHash(screens') = generateScreensHash(screens)
       /\ canvasWidth = prevCall.size
       /\ theme = prevCall.theme
       => /\ meshBuilds' = meshBuilds
          /\ screenMeshes' = screenMeshes
          /\ timers' = timers]_vars

\* A distance edit: updateScreens on the initialized engine, in the top or the
\* isometric view, with distances other than those of the call before.
DistanceEdit ==
    /\ called' = "updateScreens"
    /\ isInitialized
    /\ viewAngle # "front"
    /\ DistanceChanged([This EXCEPT !.screens = screens'])

\* C7: the response to distance edits is debounced. At most one camera-update
\* timer is pending at any time, and it is the one responseTimeoutId names;
\* every distance edit in the top or the isometric view cancels the pending
\* timer and arms a new one; so when the timer fires, after the last edit of
\* a burst, no other timer is left to fire.
ResponseDebounced ==
    /\ [](Cardinality(timers) <= 1 /\ timers \subseteq {responseTimeoutId})
    /\ [][/\ DistanceEdit => /\ timers' = {responseTimeoutId'}
                             /\ responseTimeoutId' \notin timers
         /\ called' = "timeout" /\ timers # {} => timers' = {}]_vars

\* C7 witness: a burst of two edits. Each has armed a timer, only the second
\* timer is pending, and none has fired: the camera still aims at the target
\* of the empty screen set the view was switched on, not at the target of the
\* screens of the last edit.
BurstPending ==
    /\ called = "updateScreens"
    /\ timerCount = 2
    /\ timers = {2}
    /\ targetCameraPosition =
           updateCameraPosition([This EXCEPT !.screens = << >>]).targetCameraPosition
    /\ targetCameraPosition # updateCameraPosition(This).targetCameraPosition

\* The target pose of a view for the screens at hand.
TargetPoseOf(angle) ==
    With(CASE angle = "front" -> FrontTargets(This)
           [] angle = "top" -> TopTargets(This)
           [] OTHER -> IsoTargets(This), LAMBDA t :
        << t.targetCameraPosition, t.targetCameraLookAt >>)

\* State s animates towards the target pose of its view.
Retargeted(s) ==
    /\ s.isAnimating
    /\ << s.targetCameraPosition, s.targetCameraLookAt >> = TargetPoseOf(s.viewAngle)

\* C8: while an animation is in flight, a switch to any other view and a
\* camera retarget take effect at once: the view mode is the requested one,
\* the target pose is that of the request and isAnimating stays true; nothing
\* waits for the animation in flight to converge.
RetargetsInFlight ==
    isInitialized /\ isAnimating =>
        /\ \A angle \in ViewAngles \ {viewAngle} :
               With(setViewAngle(This, angle), LAMBDA after :
                   after.viewAngle = angle /\ Retargeted(after))
        /\ Retargeted(updateCameraPosition(This))

\* C8 witness: the view was switched to isometric, one frame of that animation
\* ran without ending it, and the view was switched to top: the top target is
\* set and the animation goes on.
SwitchedInFlight ==
    /\ called = "setViewAngle"
    /\ events = MaxEvents - 2
    /\ ticks = MaxTicks - 1
    /\ viewAngle = "top"
    /\ currentSpherical.set
    /\ Retargeted(This)

\* No engine is running and none will start: init3D failed or destroy was called.
Stopped == ~isInitialized /\ ~initPending

\* C9: destroy on an initialized engine stops the animation loop. It leaves
\* the engine uninitialized with no debounce timer pending; from then on the
\* engine stays so, a frame callback still scheduled changes neither the
\* camera nor the look-around state, renders nothing and does not reschedule
\* itself, and no timer is left or armed that could fire.
DestroyStopsLoop ==
    /\ [][isInitialized /\ called' = "destroy" => Stopped' /\ timers' = {}]_vars
    /\ [][Stopped => /\ Stopped'
                     /\ timers' = {}
                     /\ called' = "animate" =>
                            /\ UNCHANGED << camera, lookAroundState >>
                            /\ ~rendered'
                            /\ ~rafPending']_vars

\* C9 witness: the view was switched, a distance edit armed the debounce timer
\* and destroy was called before it fired (the camera target is not that of
\* the edited screens); the frame callback left over has run and has neither
\* rendered nor rescheduled itself.
FrameAfterDestroy ==
    /\ called = "animate"
    /\ Stopped
    /\ ~rafPending
    /\ ~rendered
    /\ timerCount = 1
    /\ timers = {}
    /\ targetCameraPosition # updateCameraPosition(This).targetCameraPosition

\* C10: gestures do nothing outside their view. In the front and the top view
\* a wheel event and a touch event with two touches leave the zoom factor,
\* the orbit's spherical coordinates and the camera pose as they are; in the
\* top view the press, move and release of one pointer (mouse or touch) leave
\* the orbit state (spherical coordinates, target, enabled) and the
\* look-around yaw and pitch as they are.
GesturesOffOutsideMode ==
    [][/\ viewAngle # "3d" /\ called' \in {"onWheel", "pinchStart", "pinchMove"} =>
              /\ zoomState'.zoomFactor = zoomState.zoomFactor
              /\ orbitState'.spherical = orbitState.spherical
              /\ camera' = camera
       /\ viewAngle = "top" /\ called' \in {"onMouseDown", "onMouseMove", "onMouseUp",
                                              "onTouchStart", "onTouchMove", "onTouchEnd"} =>
              /\ orbitState'.spherical = orbitState.spherical
              /\ orbitState'.target = orbitState.target
              /\ orbitState'.enabled = orbitState.enabled
              /\ lookAroundState'.currentYaw = lookAroundState.currentYaw
              /\ lookAroundState'.currentPitch = lookAroundState.currentPitch]_vars

\* C10 witness: on the running engine, in the top view, the pointer was moved
\* as the third event after the switch to that view.
MovedInTopView ==
    /\ called = "onMouseMove"
    /\ listening
    /\ isInitialized
    /\ viewAngle = "top"
    /\ ~orbitState.enabled
    /\ events = MaxEvents - 3

\* A press would start a look-around drag.
LookAroundActive ==
    onMouseDown([This EXCEPT !.lookAroundState.dragging = FALSE]).lookAroundState.dragging

\* C11 as stated: in every reachable state the look-around takes the pointer
\* exactly in the front view and the orbit is enabled exactly in the
\* isometric view.
InputStateFollowsView ==
    /\ LookAroundActive <=> viewAngle = "front"
    /\ orbitState.enabled <=> viewAngle = "3d"

\* C11 amended: while the pointer listeners are attached, the look-around
\* takes the pointer exactly in the front view and the orbit is enabled exactly
\* in the isometric view.
InputStateFollowsViewWhileListening == listening => InputStateFollowsView

\* C11 witness: the view was switched to isometric before init3D ran, which
\* has attached the listeners and enabled the orbit.
OrbitEnabledByInit ==
    /\ called = "init3D"
    /\ listening
    /\ viewAngle = "3d"
    /\ orbitState.enabled

\* C12: every camera animation ends. While isAnimating is set, a frame either
\* moves the camera or the working values of the animation, or ends it with
\* the camera on its target; a frame that changes nothing while isAnimating
\* stays set repeats for ever when no input arrives.
AnimationNeverStuck ==
    isInitialized /\ isAnimating => animateCamera(This) # This

\* The greatest viewing distance of the screens, in units of the model; the
\* default distance when there are no screens.
FurthestDistanceM ==
    IF screens = << >> THEN PRESET_DISTANCE * MM
    ELSE CHOOSE d \in {DistanceOf(screens[i]) * MM : i \in DOMAIN screens} :
             \A i \in DOMAIN screens : DistanceOf(screens[i]) * MM <= d

IsoRetarget ==
    \/ called' = "setViewAngle" /\ isInitialized /\ viewAngle # "3d" /\ viewAngle' = "3d"
    \/ called' = "timeout" /\ viewAngle = "3d"

ZoomOutAboveOne ==
    isInitialized /\ viewAngle = "3d" /\ orbitState.enabled =>
        /\ onWheel(This, 100).orbitState.spherical.radius >= orbitState.spherical.radius
        /\ onWheel(This, -100).orbitState.spherical.radius <= orbitState.spherical.radius

\* A frame of the spring-back in the front view.
SpringFrame ==
    /\ called' = "animate"
    /\ isInitialized
    /\ viewAngle = "front"
    /\ lookAroundState.springBack

\* C16: after the release of a look-around drag in the front view, every
\* frame shrinks yaw and pitch in magnitude by the spring ratio; a frame that
\* leaves springBack set has made |yaw| + |pitch| smaller, so finitely many
\* frames follow; and the frame that clears springBack leaves yaw and pitch
\* exactly 0.
SpringBackEnds ==
    [][SpringFrame =>
          LET yaw == lookAroundState.currentYaw
              pitch == lookAroundState.currentPitch
              yaw1 == lookAroundState'.currentYaw
              pitch1 == lookAroundState'.currentPitch
          IN  /\ Abs(yaw1) * Unit <= Abs(yaw) * (Unit - SpringSpeed)
              /\ Abs(pitch1) * Unit <= Abs(pitch) * (Unit - SpringSpeed)
              /\ lookAroundState'.springBack => Abs(yaw1) + Abs(pitch1) < Abs(yaw) + Abs(pitch)
              /\ ~lookAroundState'.springBack => yaw1 = 0 /\ pitch1 = 0]_vars

\* C16 witness: after a press, a move and the release, the spring-back has
\* run for more than MaxTicks frames and has ended: yaw and pitch are 0 and
\* springBack is cleared.
SpringBackDone ==
    /\ called = "animate"
    /\ viewAngle = "front"
    /\ events = MaxEvents - 3
    /\ ticks = 0
    /\ ~lookAroundState.dragging
    /\ ~lookAroundState.springBack
    /\ lookAroundState.currentYaw = 0
    /\ lookAroundState.currentPitch = 0

(***************************************************************************)
(* Look-around drag                                                        *)
(***************************************************************************)
\* A step that is a one-finger or mouse move of a look-around drag.
LookAroundMove ==
    called' \in {"onMouseMove", "onTouchMove"} /\ viewAngle = "front" /\ lookAroundState.dragging

\* A step that is the press starting a look-around drag.
LookAroundPress ==
    called' \in {"onMouseDown", "onTouchStart"} /\ viewAngle = "front"

\* C17: every look-around move in front view subtracts the pixel delta times
\* the rotate speed from yaw and pitch and clamps the result to the limits,
\* so |currentYaw| <= maxYaw and |currentPitch| <= maxPitch afterwards; the
\* limits are what calculateLookAroundFOVLimits returned at the press, and no
\* step other than a press changes them.
LookAroundClamped ==
    [][LET l == lookAroundState
           l1 == lookAroundState'
       IN  /\ LookAroundMove =>
                /\ \E d \in DragDeltas :
                      /\ l1.currentYaw = Clamp(-l.maxYaw, l.currentYaw - d[1] * LookRotateSpeed, l.maxYaw)
                      /\ l1.currentPitch = Clamp(-l.maxPitch, l.currentPitch - d[2] * LookRotateSpeed, l.maxPitch)
                /\ Abs(l1.currentYaw) <= l1.maxYaw
                /\ Abs(l1.currentPitch) <= l1.maxPitch
           /\ LookAroundPress =>
                /\ l1.maxYaw = calculateLookAroundFOVLimits(This).maxYaw
                /\ l1.maxPitch = calculateLookAroundFOVLimits(This).maxPitch
           /\ ~LookAroundPress => l1.maxYaw = l.maxYaw /\ l1.maxPitch = l.maxPitch]_vars

\* C17 witness: a look-around move to the left and down by more than the
\* limits allow has left yaw at +maxYaw and pitch at -maxPitch.
LookAroundAtLimits ==
    /\ called \in {"onMouseMove", "onTouchMove"}
    /\ viewAngle = "front"
    /\ lookAroundState.dragging
    /\ lookAroundState.maxYaw > 0
    /\ lookAroundState.maxPitch > 0
    /\ lookAroundState.currentYaw = lookAroundState.maxYaw
    /\ lookAroundState.currentPitch = -lookAroundState.maxPitch

(***************************************************************************)
(* Orbit azimuth range                                                     *)
(***************************************************************************)
\* C18: in every reachable state the orbit azimuth orbitState.spherical.theta
\* lies in (-pi, pi], also after orbit drag moves.
ThetaWrapped ==
    -PI < orbitState.spherical.theta /\ orbitState.spherical.theta <= PI

(***************************************************************************)
(* Building from invalid specs                                             *)
(***************************************************************************)
\* A spec createSingleScreen can build from: diagonal, resolution and viewing
\* distance are positive.
ValidSpec(screenData) ==
    /\ screenData.diagonal > 0
    /\ screenData.resolution[1] > 0
    /\ screenData.resolution[2] > 0
    /\ screenData.distance > 0

\* C19: no panel or border in the scene was built from a spec whose
\* diagonal, resolution or viewing distance is <= 0; in particular none
\* stands at the default distance in place of such a value.
InvalidSpecNotBuilt ==
    \A i \in DOMAIN screenMeshes : ValidSpec(screenMeshes[i].screenData)

(***************************************************************************)
(* Failed initialization                                                   *)
(***************************************************************************)
\* init3D has run and nothing of the engine is there: not initialized, no
\* frame callback scheduled, nothing rendered, no mesh, sphere or axis line
\* built, no listener attached, no timer armed.
NothingStarted ==
    /\ ~initPending
    /\ ~isInitialized
    /\ ~rafPending
    /\ ~rendered
    /\ meshBuilds = 0
    /\ screenMeshes = <<>>
    /\ ~userSphere
    /\ ~viewAxisLine.exists
    /\ ~listening
    /\ timers = {}

\* When init3D cannot acquire the rendering surface the engine does not
\* become initialized, starts no loop and renders no frame, and whatever is
\* called later builds nothing.
InitFailureContained ==
    /\ [][called' = "init3D" /\ ~isInitialized' => NothingStarted']_vars
    /\ [][NothingStarted => NothingStarted']_vars

\* C20: when init3D cannot acquire the rendering surface the engine is left
\* with nothing started, and init3D reports the failure to its caller: it
\* does not return as it does on success.
InitFailureReported ==
    (~initPending /\ ~isInitialized /\ meshBuilds = 0) =>
        NothingStarted /\ initResult # Undefined

(***************************************************************************)
(* Panel and border geometry                                               *)
(***************************************************************************)
\* C21: the border frame of every panel built is 5% of the panel height
\* thick, for flat and for curved panels.
BorderFivePercent ==
    \A i \in DOMAIN screenMeshes :
        screenMeshes[i].border.borderThickness
            = RDiv(HeightMeters(screenMeshes[i].screenData) * 5, 100)

\* The arc angle a is the width over the radius, to the nearest unit.
IsWidthOverRadius(a, width, radius) == 2 * Abs(a * radius - width * Unit) <= radius

\* The segment count n belongs to the arc angle a: the integer part of 32
\* segments per radian, and 32 at least.
IsSegmentCount(n, a) ==
    /\ n >= 32
    /\ n * Unit <= Max(32 * Unit, 32 * a)
    /\ 32 * a < (n + 1) * Unit

\* C22: for every curved panel built, panel and border use the same arc, its
\* angle is the panel width over the curvature radius, and its segment count
\* is max(32, floor(32 * arcAngle)): at least 32 and no smaller than the
\* count of any smaller arc angle. A flat panel uses no arc.
ArcFromWidthAndRadius ==
    \A i \in DOMAIN screenMeshes :
        LET mesh == screenMeshes[i]
            screenData == mesh.screenData
            arc == mesh.centerPanel.arc
        IN  /\ mesh.border.arc = arc
            /\ arc.curved <=> screenData.curvature # 0
            /\ ~arc.curved => arc.arcAngle = 0 /\ arc.segments = 0
            /\ arc.curved =>
                 /\ IsWidthOverRadius(arc.arcAngle, WidthMeters(screenData),
                                      screenData.curvature * MM)
                 /\ IsSegmentCount(arc.segments, arc.arcAngle)
                 /\ \A list \in GeometryLists :
                        LET other == createSingleScreen(list[1], 0, 0).centerPanel.arc
                        IN  (other.curved /\ other.arcAngle <= arc.arcAngle)
                                => other.segments <= arc.segments

\* C22 witness: a curved panel is built whose arc takes more than the minimum
\* of 32 segments.
ArcAboveMinimumSegments ==
    /\ called = "init3D"
    /\ isInitialized
    /\ Len(screenMeshes) = 1
    /\ screenMeshes[1].centerPanel.arc.curved
    /\ screenMeshes[1].centerPanel.arc.arcAngle > Unit
    /\ screenMeshes[1].centerPanel.arc.segments > 32

(***************************************************************************)
(* Isometric convergence and orbit hand-over                               *)
(***************************************************************************)
\* A frame in which a running isometric animation converges.
IsoConverges ==
    /\ called' = "animate"
    /\ isInitialized
    /\ viewAngle = "3d"
    /\ isAnimating
    /\ ~isAnimating'

\* C23: the frame in which an isometric animation converges clears
\* isAnimating and the animation helper fields, puts the camera at the target
\* position with the up vector (0,1,0), and sets orbitState.spherical to the
\* spherical coordinates of the final camera position relative to the orbit
\* target, which the frame leaves as it is.
IsoConvergenceHandsOver ==
    [][IsoConverges =>
          /\ ~currentLookAt'.set
          /\ ~currentUp'.set
          /\ ~currentSpherical'.set
          /\ ~currentOrbitTarget'.set
          /\ camera'.position = targetCameraPosition
          /\ targetCameraPosition' = targetCameraPosition
          /\ camera'.up = UpY
          /\ orbitState'.target = orbitState.target
          /\ orbitState'.spherical
                 = SphericalOf(VSub(camera'.position, orbitState'.target))]_vars

\* C23 witness: the animation of the first switch into the isometric view
\* has converged in this frame, with a screen mounted.
IsoJustConverged ==
    /\ called = "animate"
    /\ IsoAtRest
    /\ Len(screens) > 0
    /\ events = MaxEvents - 1
    /\ ~currentSpherical.set
    /\ camera.position = targetCameraPosition
    /\ VLen(VSub(camera.position, orbitState.target)) > 0

\* A step that is a one-pointer press in the isometric view with orbit
\* controls enabled.
OrbitPress ==
    /\ called' \in {"onMouseDown", "onTouchStart"}
    /\ viewAngle = "3d"
    /\ orbitState.enabled

\* A step that is the first move of an orbit drag, right after its press.
FirstOrbitMove ==
    /\ called \in {"onMouseDown", "onTouchStart"}
    /\ called' \in {"onMouseMove", "onTouchMove"}
    /\ viewAngle = "3d"
    /\ orbitState.enabled
    /\ orbitState.dragging

\* The distance of the camera from the orbit target.
OrbitDistance(cam, orbit) == VLen(VSub(cam.position, orbit.target))

\* C24: a one-pointer press in the isometric view with orbit enabled starts
\* the drag, clears isAnimating and sets the orbit spherical coordinates to
\* those of the live camera position relative to the orbit target (which is
\* off the target); the move that follows the press then leaves the camera
\* at the distance from the orbit target it had before, to 5 units of
\* rounding.
PressTakesLiveCamera ==
    /\ [][OrbitPress =>
             /\ orbitState'.dragging
             /\ ~isAnimating'
             /\ OrbitDistance(camera, orbitState) > 0
             /\ orbitState'.target = orbitState.target
             /\ orbitState'.spherical
                    = SphericalOf(VSub(camera.position, orbitState.target))]_vars
    /\ [][FirstOrbitMove =>
             Abs(OrbitDistance(camera', orbitState') - OrbitDistance(camera, orbitState))
                 <= 5]_vars

\* C24 witness: a press has interrupted the animation into the isometric
\* view away from its target, and the first move of the drag has been made:
\* the orbit radius is the camera's distance, not the target's.
DragFromInterruptedAnimation ==
    /\ called \in {"onMouseMove", "onTouchMove"}
    /\ viewAngle = "3d"
    /\ orbitState.dragging
    /\ ~isAnimating
    /\ events = MaxEvents - 3
    /\ Abs(orbitState.spherical.radius - IsoTargets(This).orbitState.spherical.radius)
           > 500
    /\ Abs(OrbitDistance(camera, orbitState) - orbitState.spherical.radius)
           <= 5

(***************************************************************************)
(* Seeding the isometric animation                                         *)
(***************************************************************************)
\* A step that switches an initialized engine from the front or the top view
\* into the isometric view.
SwitchIntoIso ==
    /\ called' = "setViewAngle"
    /\ isInitialized
    /\ viewAngle \in {"front", "top"}
    /\ viewAngle' = "3d"

\* The camera position the working values of the isometric animation stand for.
WorkingPosition(sph, orbitTarget) == VAdd(SetFromSpherical(sph.s), orbitTarget.v)

\* C25: a switch into the isometric view from the front or the top view seeds
\* the working orbit target with the orbit target in force before the switch,
\* the working up vector with the camera's, and the working spherical
\* coordinates with those of the pre-switch camera position relative to that
\* target: the animation starts at the pre-switch camera position (to 5 units
\* of rounding), so its first tick moves the camera on from there.
IsoSeededFromPreSwitchCamera ==
    [][SwitchIntoIso =>
          /\ currentOrbitTarget' = SomeVec(orbitState.target)
          /\ currentUp' = SomeVec(camera.up)
          /\ currentSpherical'.set
          /\ VDist(WorkingPosition(currentSpherical', currentOrbitTarget'), camera.position)
                 <= 5]_vars

(***************************************************************************)
(* Zero-length offsets                                                     *)
(***************************************************************************)
\* The offset updateCameraPosition would divide by the length of, were it
\* to run in the isometric view now.
IsoTargetOffset ==
    With(calculateFurthestScreenDistance(This) * MM, LAMBDA furthestDistanceMeters :
        With(Max(1000, furthestDistanceMeters \div 5), LAMBDA cameraDistance :
            VSub(V(cameraDistance * 3, cameraDistance * 2, cameraDistance),
                 V(0, 0, -(furthestDistanceMeters \div 2)))))

\* C26: no spherical-angle computation divides by a zero radius. The two
\* computations without a guard never meet a zero offset: the one of
\* updateCameraPosition in the isometric view, whatever the screens are, and
\* the one of the converging frame of an isometric animation. The guarded
\* ones fall back to fixed coordinates when the offset is zero: on the switch
\* into the isometric view with the camera on the previous orbit target the
\* working spherical coordinates are (1, pi/2, 0).
NoZeroRadiusDivision ==
    /\ [](VLen(IsoTargetOffset) > 0)
    /\ [][IsoConverges => OrbitDistance(camera', orbitState') > 0]_vars
    /\ [][(SwitchIntoIso /\ OrbitDistance(camera, orbitState) = 0)
             => currentSpherical' = SomeSph(Spherical(Unit, HALF_PI, 0))]_vars

\* C26 witness: the first switch from the front into the isometric view has
\* met the camera on the previous orbit target, both at the origin, and has
\* taken the fallback.
ZeroOffsetFellBack ==
    /\ called = "setViewAngle"
    /\ isInitialized
    /\ viewAngle = "3d"
    /\ camera.position = Zero
    /\ currentOrbitTarget = SomeVec(Zero)
    /\ currentSpherical = SomeSph(Spherical(Unit, HALF_PI, 0))

(***************************************************************************)
(* Orbit and pinch                                                         *)
(***************************************************************************)
\* The isometric view with its gestures enabled.
IsoGestures == viewAngle = "3d" /\ orbitState.enabled

\* The zoom factor after a pinch move from `last` to `current` pixels between
\* the two touches: the ratio, taken at half sensitivity, within the limits.
PinchedZoom(zoomFactor, last, current) ==
    LET ratio == RDiv(current * Unit, last)
        halved == Unit + Mul(ratio - Unit, Unit \div 2)
    IN  Max(MinZoom, Min(MaxZoom, Mul(zoomFactor, halved)))

\* C27: one-touch orbit and two-touch pinch exclude each other. A touch start
\* with two touches in the isometric view sets pinching and clears orbit
\* dragging; a one-touch move while pinching is set changes neither the orbit
\* state nor the camera; a pinch move multiplies the zoom factor by the ratio
\* of the new to the previous distance of the two touches taken at half
\* sensitivity (within the zoom limits), remembers the new distance and
\* leaves the orbit angles and the orbit target as they are.
OrbitAndPinchExclusive ==
    /\ [][(called' = "pinchStart" /\ IsoGestures) =>
             /\ zoomState'.pinching
             /\ ~orbitState'.dragging
             /\ orbitState'.spherical = orbitState.spherical]_vars
    /\ [][(called' = "onTouchMove" /\ zoomState.pinching) =>
             UNCHANGED << orbitState, camera, zoomState >>]_vars
    /\ [][(called' = "pinchMove" /\ zoomState.pinching /\ IsoGestures
               /\ zoomState.lastPinchDistance > 0) =>
             /\ zoomState'.lastPinchDistance \in PinchDistances
             /\ zoomState'.zoomFactor
                    = PinchedZoom(zoomState.zoomFactor, zoomState.lastPinchDistance,
                                  zoomState'.lastPinchDistance)
             /\ orbitState'.spherical.theta = orbitState.spherical.theta
             /\ orbitState'.spherical.phi = orbitState.spherical.phi
             /\ orbitState'.target = orbitState.target
             /\ orbitState'.dragging = orbitState.dragging]_vars

\* C27 witness: in the isometric view two touches 300 px apart have started a
\* pinch and have moved to 20 px apart; the zoom factor has fallen below 1
\* and no orbit drag is on.
PinchedIn ==
    /\ called = "pinchMove"
    /\ IsoGestures
    /\ zoomState.pinching
    /\ ~orbitState.dragging
    /\ zoomState.lastPinchDistance = 20
    /\ zoomState.zoomFactor = PinchedZoom(Unit, 300, 20)
    /\ zoomState.zoomFactor < Unit

(***************************************************************************)
(* Flags and view modes                                                    *)
(***************************************************************************)
\* C28: while the engine is initialized, orbit controls are enabled exactly
\* in the isometric view, whatever switches, screen updates, debounced
\* camera updates and gestures came before.
OrbitEnabledIffIso ==
    isInitialized => (orbitState.enabled <=> viewAngle = "3d")

\* C28 witness: the engine has been switched into the isometric view and on
\* into the top view, and orbit controls are disabled again.
OrbitDisabledAfterIso ==
    /\ called = "setViewAngle"
    /\ isInitialized
    /\ viewAngle = "top"
    /\ events = MaxEvents - 2
    /\ currentSpherical.set
    /\ ~orbitState.enabled

\* C29: the drag flags do not outlive their view: look-around dragging is
\* set only in the front view, orbit dragging and pinching only in the
\* isometric view, also when the view is switched between a press and its
\* release.
DragFlagsWithinMode ==
    /\ lookAroundState.dragging => viewAngle = "front"
    /\ orbitState.dragging => viewAngle = "3d"
    /\ zoomState.pinching => viewAngle = "3d"

\* C30: manual orbiting and the animation driver never drive the camera at
\* the same time: while orbit dragging is set, isAnimating is not, also when
\* a debounced camera update fires or the view is switched with the pointer
\* held down.
NoAnimationWhileDragging ==
    orbitState.dragging => ~isAnimating

(***************************************************************************)
(* Restarting an interrupted isometric animation                           *)
(***************************************************************************)
\* A step in which a camera update restarts the animation in the isometric
\* view after a press has stopped an earlier one.
IsoRestart ==
    /\ called' \in {"timeout", "updateScreens", "setViewAngle"}
    /\ isInitialized
    /\ viewAngle = "3d"
    /\ viewAngle' = "3d"
    /\ ~isAnimating
    /\ isAnimating'

\* C31: when an isometric animation restarts after a press and drag have
\* interrupted an earlier one, its working spherical coordinates and working
\* orbit target are those of the live camera: either none are left, so that
\* the first tick derives them from the camera, or they stand for the
\* camera's position (to 5 units of rounding). Values left over from the
\* interrupted animation are not reused.
RestartFromLiveCamera ==
    [][IsoRestart =>
          \/ ~currentSpherical'.set /\ ~currentOrbitTarget'.set
          \/ /\ currentSpherical'.set
             /\ currentOrbitTarget'.set
             /\ VDist(WorkingPosition(currentSpherical', currentOrbitTarget'),
                      camera'.position) <= 5]_vars

(***************************************************************************)
(* Look-around limits                                                      *)
(***************************************************************************)
\* C32: in every reachable state the look-around yaw and pitch are within
\* the limits, |currentYaw| <= maxYaw and |currentPitch| <= maxPitch, also
\* when a press recomputes the limits from a changed screen set while the
\* spring-back from the previous drag is still running.
LookAroundWithinLimits ==
    /\ Abs(lookAroundState.currentYaw) <= lookAroundState.maxYaw
    /\ Abs(lookAroundState.currentPitch) <= lookAroundState.maxPitch

(***************************************************************************)
(* Orbit radius and zoom state                                             *)
(***************************************************************************)
\* C33: whenever the view is isometric and no animation runs, the orbit
\* radius is the one of the zoom state, max(0.01, baseDistance / zoomFactor)
\* (to a millimetre), also after a drag has interrupted an animation.
RadiusFollowsZoom ==
    (isInitialized /\ viewAngle = "3d" /\ ~isAnimating) =>
        Abs(orbitState.spherical.radius
            - Max(100, RDiv(zoomState.baseDistance * Unit, zoomState.zoomFactor))) <= 10

(***************************************************************************)
(* The camera's up vector at rest                                          *)
(***************************************************************************)
\* C34: whenever no camera animation runs and the view is front or
\* isometric, the camera's up vector is the vertical (0,1,0); an orbit press
\* that interrupts a top -> isometric transition leaves no tilted up vector.
UpVerticalAtRest ==
    (isInitialized /\ ~isAnimating /\ viewAngle \in {"front", "3d"}) =>
        VDist(camera.up, UpY) <= 10

(***************************************************************************)
(* Panel positions along the forward axis                                  *)
(***************************************************************************)
\* C35: no two panels of a displayed screen list are at the same position
\* along the forward axis: the positions -distance_i + i * 0.001 m are
\* pairwise distinct, whether or not the viewing distances are equal.
PanelsPairwiseDistinct ==
    \A i, j \in 1..Len(screenMeshes) :
        i # j => screenMeshes[i].z # screenMeshes[j].z

(***************************************************************************)
(* destroy() before the deferred initialization                            *)
(***************************************************************************)
\* The deferred init3D runs right after a destroy() that preceded it.
InitAfterDestroy ==
    /\ called = "destroy"
    /\ initPending
    /\ called' = "init3D"

\* C36: destroy() called before the constructor's deferred initialization
\* has run is final: the engine does not become initialized afterwards,
\* creates no renderer and starts no animation loop.
EarlyDestroyIsFinal ==
    [][InitAfterDestroy => (~isInitialized' /\ ~renderer' /\ ~rafPending')]_vars

(***************************************************************************)
(* The debounced camera update after a switch to the front view            *)
(***************************************************************************)
\* A timer of updateCameraPositionResponsive, which only top and isometric
\* view arm, fires in the front view.
TimerFiresInFront ==
    /\ called' = "timeout"
    /\ viewAngle = "front"

\* C37: a camera-update timer armed in top or isometric view that fires
\* after the view has been switched to front does not retarget the camera,
\* restart the animation or reset the zoom state.
LateTimerIdleInFront ==
    [][TimerFiresInFront =>
          /\ targetCameraPosition' = targetCameraPosition
          /\ targetCameraLookAt' = targetCameraLookAt
          /\ isAnimating' = isAnimating
          /\ zoomState' = zoomState]_vars

(***************************************************************************)
(* Announcements                                                           *)
(***************************************************************************)
\* At most one chain of timeouts processes the queue.
OneChain == Len(announceTimeouts) <= 1

\* The messages written so far are the first of the messages queued so far.
FirstInFirstOut ==
    /\ Len(announced) <= Len(requested)
    /\ announced = SubSeq(requested, 1, Len(announced))

\* A message in the live region is cleared or replaced.
MessageReplaced ==
    /\ liveRegion.textContent # ""
    /\ liveRegion'.textContent # liveRegion.textContent

\* C38: announcements never overlap and keep their order: for any sequence
\* of announce(message) calls at most one processing chain is active,
\* messages are written to the live region in FIFO order, each stays for
\* the full display interval before the next replaces it, and every queued
\* message is eventually shown, after which isAnnouncing is false.
AnnouncementsInOrder ==
    /\ [](OneChain /\ FirstInFirstOut)
    /\ [][MessageReplaced => displayedFor >= DisplayMs]_vars
    /\ isAnnouncing ~> (~isAnnouncing /\ announced = requested)

\* Two different messages, the second queued behind the first, have been
\* shown in their order and the queue is at rest.
TwoShownInOrder ==
    /\ Len(announced) = 2
    /\ announced[1] # announced[2]
    /\ announced = requested
    /\ ~isAnnouncing
    /\ displayedFor >= DisplayMs

(***************************************************************************)
(* AccessibilityManager.destroy() while announcements are processed        *)
(***************************************************************************)
\* A pending timeout of processAnnouncementQueue runs its callback after
\* destroy() has removed the live region.
CallbackAfterDestroy ==
    /\ ~liveRegion.attached
    /\ called' \in {"announceWrite", "announceNext"}

\* C39: destroy() is safe at any point of announcement processing: after it
\* no pending timeout's callback writes to the removed (null) live region
\* or restarts the processing of the queue.
DestroySafeForTimeouts ==
    [][CallbackAfterDestroy =>
          /\ called' # "announceWrite"
          /\ ~isAnnouncing'
          /\ announceTimeouts' = <<>>]_vars

(***************************************************************************)
(* Shareable links                                                         *)
(***************************************************************************)
\* C40: shareable links round-trip: for every valid state with at least one
\* screen getShareableURL returns a URL (not null), and decodeState maps
\* its parameters back to a valid state with the same screens in the same
\* order, equal in diagonal, width, height, distance, curvature (null for
\* flat), scaling (100 when omitted) and preset.
ShareableLinkRoundTrips ==
    (shareable.called /\ validateState(urlState) /\ Len(urlState.screens) >= 1) =>
        /\ ~shareable.null
        /\ With(decodeState(shareable.v, shareable.s), LAMBDA state :
               /\ ~state.null
               /\ state.screens = urlState.screens)

=============================================================================
